---- MODULE Spec2Model ----
(***************************************************************************)
(* SnykAudit: the audit-log fetch engine, the request retry loop, the      *)
(* request router, the user activity analyzer, the anomaly detector and    *)
(* the security event analyzer, modelled from the JavaScript sources.      *)
(*                                                                         *)
(* Each component has its own specification (SpecFetch, SpecRetry, ...).   *)
(* Every specification owns its variables; the variables of the other      *)
(* components stay at their idle value.                                    *)
(***************************************************************************)
EXTENDS Integers, Naturals, Sequences, FiniteSets, TLC

VARIABLES
  \* ---- SnykApiClient.fetchAllPages (src/src/api/client.js:225-301)
  remote,        \* the remote collection the search function serves
  allItems,      \* let allItems
  nextCursor,    \* let nextCursor (0 models null / empty)
  hasMorePages,  \* let hasMorePages
  page,          \* let page
  calls,         \* number of searchFunction calls made
  sentCursors,   \* starting_after carried by each call (0 = none)
  failedCalls,   \* number of searchFunction calls that rejected
  fpc,           \* "idle" | "loop" | "returned" | "threw"
  fresult,       \* the list fetchAllPages resolved with
  \* ---- SnykApiClient._request / requestWithRetry
  rq,            \* the retry loop of one request
  \* ---- ChatbotNlpIntegration.processMessage / SnykChatbotWrapper.handleRequest
  pm,            \* one message on its way through the pipeline
  \* ---- AnomalyDetector (src/src/core/anomalyDetector.js)
  ad,            \* the detector's fields, its input list and its output
  \* ---- SecurityEventAnalyzer (src/src/core/userActivityAnalyzer.js)
  sa,            \* the analyzer's lists, the caller's event list, the results
  \* ---- UserActivityAnalyzer over SnykAuditService and SnykApiClient
  ua,            \* one analyzeUserActivity call and the message rendered from it
  ir,           \* one recognizeIntent call and its result
  ee,           \* one extractEntities call and its result
  us,           \* one SnykAuditService: its caches and the calls made on it
  rc,           \* messages handled concurrently over one user cache and one context map
  wh,           \* one POST request to /webhook or /config and its answer
  cm,           \* one ConfigManager, its configuration file and the environment
  wf,           \* one security or suspicious activity request served over the audit search
  rk,           \* one remote call of the API client and its attempts
  sm,           \* one security summary: the events, their categories and the message
  tp,           \* one message naming a counted time period, its entities and its days
  nr,           \* one processMessage call: the confidence threshold and the route taken
  eu            \* one who-did-it question: its entities and the reply of the router

fetchVars == <<remote, allItems, nextCursor, hasMorePages, page, calls,
               sentCursors, failedCalls, fpc, fresult>>
vars == <<remote, allItems, nextCursor, hasMorePages, page, calls,
          sentCursors, failedCalls, fpc, fresult, rq, pm, ad, sa, ua, ir, ee, us, rc, wh, cm, wf, rk, sm, tp, nr, eu>>
\* The variables each component leaves alone.
nonFetchVars == <<rq, pm, ad, sa, ua, ir, ee, us, rc, wh, cm, wf, rk, sm, tp, nr, eu>>
nonRetryVars == <<fetchVars, pm, ad, sa, ua, ir, ee, us, rc, wh, cm, wf, rk, sm, tp, nr, eu>>
nonPipelineVars == <<fetchVars, rq, ad, sa, ua, ir, ee, us, rc, wh, cm, wf, rk, sm, tp, nr, eu>>
nonAnomalyVars == <<fetchVars, rq, pm, sa, ua, ir, ee, us, rc, wh, cm, wf, rk, sm, tp, nr, eu>>
nonCategorizeVars == <<fetchVars, rq, pm, ad, ua, ir, ee, us, rc, wh, cm, wf, rk, sm, tp, nr, eu>>
nonActivityVars == <<fetchVars, rq, pm, ad, sa, ir, ee, us, rc, wh, cm, wf, rk, sm, tp, nr, eu>>
nonIntentVars == <<fetchVars, rq, pm, ad, sa, ua, ee, us, rc, wh, cm, wf, rk, sm, tp, nr, eu>>
nonEntityVars == <<fetchVars, rq, pm, ad, sa, ua, ir, us, rc, wh, cm, wf, rk, sm, tp, nr, eu>>
nonServiceVars == <<fetchVars, rq, pm, ad, sa, ua, ir, ee, rc, wh, cm, wf, rk, sm, tp, nr, eu>>
nonRaceVars == <<fetchVars, rq, pm, ad, sa, ua, ir, ee, us, wh, cm, wf, rk, sm, tp, nr, eu>>
nonHttpVars == <<fetchVars, rq, pm, ad, sa, ua, ir, ee, us, rc, cm, wf, rk, sm, tp, nr, eu>>
nonConfigVars == <<fetchVars, rq, pm, ad, sa, ua, ir, ee, us, rc, wh, wf, rk, sm, tp, nr, eu>>
nonWorkflowVars == <<fetchVars, rq, pm, ad, sa, ua, ir, ee, us, rc, wh, cm, rk, sm, tp, nr, eu>>
nonRemoteCallVars == <<fetchVars, rq, pm, ad, sa, ua, ir, ee, us, rc, wh, cm, wf, sm, tp, nr, eu>>
nonSummaryVars == <<fetchVars, rq, pm, ad, sa, ua, ir, ee, us, rc, wh, cm, wf, rk, tp, nr, eu>>
nonPeriodVars == <<fetchVars, rq, pm, ad, sa, ua, ir, ee, us, rc, wh, cm, wf, rk, sm, nr, eu>>
nonRoutingVars == <<fetchVars, rq, pm, ad, sa, ua, ir, ee, us, rc, wh, cm, wf, rk, sm, tp, eu>>
nonEventQueryVars == <<fetchVars, rq, pm, ad, sa, ua, ir, ee, us, rc, wh, cm, wf, rk, sm, tp, nr>>

(***************************************************************************)
(* Generic helpers                                                         *)
(***************************************************************************)
RECURSIVE Pow2(_)
Pow2(k) == IF k = 0 THEN 1 ELSE 2 * Pow2(k - 1)

RECURSIVE FlattenSeq(_)
FlattenSeq(ss) == IF ss = <<>> THEN <<>> ELSE Head(ss) \o FlattenSeq(Tail(ss))

Idle == "idle"

\* Text whose characters the code inspects (toLowerCase, includes,
\* substring) is a sequence of one-character strings; the empty sequence is
\* the empty or missing (falsy) string.
Absent == <<>>
UpperCase == <<"A", "B", "C", "D", "E", "F", "G", "H", "I", "J", "K", "L", "M",
               "N", "O", "P", "Q", "R", "S", "T", "U", "V", "W", "X", "Y", "Z">>
LowerCase == <<"a", "b", "c", "d", "e", "f", "g", "h", "i", "j", "k", "l", "m",
               "n", "o", "p", "q", "r", "s", "t", "u", "v", "w", "x", "y", "z">>
ToLowerChar(c) ==
  IF \E i \in 1..Len(UpperCase) : UpperCase[i] = c
  THEN LowerCase[CHOOSE i \in 1..Len(UpperCase) : UpperCase[i] = c]
  ELSE c
\* String.prototype.toLowerCase
ToLowerCase(str) == [i \in 1..Len(str) |-> ToLowerChar(str[i])]
\* String.prototype.includes
Includes(str, sub) ==
  \E i \in 0..(Len(str) - Len(sub)) : SubSeq(str, i + 1, i + Len(sub)) = sub
\* a || b
OrElse(a, b) == IF a # Absent THEN a ELSE b

\* The elements of a sequence in order of first occurrence (the key order of
\* an object filled in that order).
RECURSIVE Distinct(_)
Distinct(sq) ==
  IF sq = <<>> THEN <<>>
  ELSE LET rest == Distinct(SubSeq(sq, 1, Len(sq) - 1))
           x == sq[Len(sq)]
       IN IF \E i \in 1..Len(rest) : rest[i] = x THEN rest ELSE Append(rest, x)

\* Array.prototype.filter over the indices that satisfy keep
RECURSIVE SelectIdx(_, _)
SelectIdx(n, keep) ==
  IF n = 0 THEN <<>>
  ELSE IF n \in keep THEN Append(SelectIdx(n - 1, keep), n)
  ELSE SelectIdx(n - 1, keep)
\* A component that is not part of the specification being explored.
IdleRec == [pc |-> "idle"]

(***************************************************************************)
(* Pagination / fetch engine                                               *)
(***************************************************************************)
\* Bounds of the remote collections that are explored.
MaxPages == 4
MaxFailAt == 3
MaxItemsPerPage == 2

\* if (page > 100) hasMorePages = false
PageLimit == 100

PageCounts == (1..MaxPages) \cup {PageLimit - 1, PageLimit, PageLimit + 1}

\* Number of items the remote puts on page c (some pages are empty).
ItemsOnPage(c) == c % (MaxItemsPerPage + 1)

EventTypeOfItem(c, k) == IF (c + k) % 2 = 0 THEN "org.policy.edit" ELSE "org.user.add"

\* The fields of one audit log item as the REST API carries them.
ItemFields(c, k) ==
  [created |-> c * 10 + k, event |-> EventTypeOfItem(c, k),
   content |-> [seq |-> k], user_id |-> c, org_id |-> "org"]

\* A raw item: wrapped in an attributes envelope, or flat (with the id and
\* type members of the wire format, which the normalized event drops).
RawItem(envelope, c, k) ==
  IF envelope = "attributes"
  THEN [id |-> c * 10 + k, type |-> "audit_log", attributes |-> ItemFields(c, k)]
  ELSE [id |-> c * 10 + k, created |-> c * 10 + k, event |-> EventTypeOfItem(c, k),
        content |-> [seq |-> k], user_id |-> c, org_id |-> "org"]

PageItems(r, c) == [k \in 1..ItemsOnPage(c) |-> RawItem(r.envelope, c, k)]

\* links.next of page c: kind "none" (no next link), "next" (a link whose
\* starting_after is cursor; 0 = parameter missing or empty), "malformed"
\* (a link new URL() rejects).
PageLink(r, c) ==
  IF r.mode = "endless" \/ c < r.n
  THEN [kind |-> "next", cursor |-> c + 1]
  ELSE IF r.lastLink = "none" THEN [kind |-> "none", cursor |-> 0]
  ELSE IF r.lastLink = "empty" THEN [kind |-> "next", cursor |-> 0]
  ELSE [kind |-> "malformed", cursor |-> 0]

\* The search function: the page served is the one the cursor designates
\* (the first page when no cursor is sent); call number r.failAt rejects with
\* a non-retriable error.
SearchResponse(r, cursor, callNo) ==
  LET c == IF cursor = 0 THEN 1 ELSE cursor IN
  [ok |-> callNo # r.failAt,
   shape |-> r.shape,
   items |-> PageItems(r, c),
   link |-> PageLink(r, c)]

\* The arrow function mapped over allItems at the end of fetchAllPages
NormalizeItem(item) ==
  IF "attributes" \in DOMAIN item
  THEN [created |-> item.attributes.created, event |-> item.attributes.event,
        content |-> item.attributes.content, user_id |-> item.attributes.user_id,
        org_id |-> item.attributes.org_id]
  ELSE [created |-> item.created, event |-> item.event, content |-> item.content,
        user_id |-> item.user_id, org_id |-> item.org_id]

\* return allItems.map(item => ...)
NormalizeAll(items) == [i \in 1..Len(items) |-> NormalizeItem(items[i])]

\* The items a response contributes: response.data an array,
\* response.data.items an array, or neither.
ResponseItems(resp) ==
  IF resp.shape \in {"array", "items"} THEN resp.items ELSE <<>>

Remotes ==
  [mode : {"finite"}, n : PageCounts, lastLink : {"none", "empty", "malformed"},
   failAt : 0..MaxFailAt, shape : {"array", "items", "other"},
   envelope : {"attributes", "flat"}]
  \cup
  [mode : {"endless"}, n : {0}, lastLink : {"none"},
   failAt : 0..MaxFailAt, shape : {"array", "items", "other"},
   envelope : {"attributes", "flat"}]

FetchIdle ==
  /\ remote = IdleRec /\ allItems = <<>> /\ nextCursor = 0 /\ hasMorePages = FALSE
  /\ page = 0 /\ calls = 0 /\ sentCursors = <<>> /\ failedCalls = 0
  /\ fpc = Idle /\ fresult = <<>>

\* fetchAllPages entry: the declarations before the loop.
FetchInit ==
  /\ remote \in Remotes
  /\ allItems = <<>>
  /\ nextCursor = 0
  /\ hasMorePages = TRUE
  /\ page = 1
  /\ calls = 0
  /\ sentCursors = <<>>
  /\ failedCalls = 0
  /\ fpc = "loop"
  /\ fresult = <<>>

\* A page limit check that is off by one.
OverPageLimit_offByOne(p) == p >= PageLimit

\* if (page > 100): the page limit check that ends each iteration
OverPageLimit(p) == p > PageLimit

\* nextUrl.searchParams.get('starting_after')
CursorFromLink(link) == link.cursor

\* An accumulation that keeps only the page just fetched.
Accumulate_overwrite(items, resp) == ResponseItems(resp)

\* allItems = [...allItems, ...response.data] (or ...response.data.items)
Accumulate(items, resp) == items \o ResponseItems(resp)

\* One iteration of while (hasMorePages): the search call, the accumulation,
\* the cursor extraction and the page-limit check.  A rejected search call
\* is caught, logged and ends the loop (catch block, client.js:266-269); a
\* link that new URL() rejects ends the loop as well (client.js:259-262).
FetchPage ==
  /\ fpc = "loop"
  /\ hasMorePages
  /\ LET resp == SearchResponse(remote, nextCursor, calls + 1)
         link == resp.link
         parsed == resp.ok /\ link.kind = "next"
         page1 == IF parsed THEN page + 1 ELSE page
         cursor1 == IF parsed THEN CursorFromLink(link) ELSE nextCursor
     IN
       /\ calls' = calls + 1
       /\ sentCursors' = Append(sentCursors, nextCursor)
       /\ allItems' = IF resp.ok THEN Accumulate(allItems, resp) ELSE allItems
       /\ failedCalls' = IF resp.ok THEN failedCalls ELSE failedCalls + 1
       /\ nextCursor' = cursor1
       /\ page' = page1
       /\ hasMorePages' = (parsed /\ cursor1 # 0 /\ ~OverPageLimit(page1))
  /\ UNCHANGED <<remote, fresult, fpc>>
  /\ UNCHANGED nonFetchVars

\* The loop is left: return allItems.map(...)
FetchReturn ==
  /\ fpc = "loop"
  /\ ~hasMorePages
  /\ fresult' = NormalizeAll(allItems)
  /\ fpc' = "returned"
  /\ UNCHANGED <<remote, allItems, nextCursor, hasMorePages, page, calls,
                 sentCursors, failedCalls>>
  /\ UNCHANGED nonFetchVars

NextFetch == FetchPage \/ FetchReturn

(***************************************************************************)
(* Request retry loop                                                      *)
(***************************************************************************)
\* Bound on the configured retry count that is explored.
MaxRetries == 3

\* retries: config.retries || 3, DEFAULT_RETRY_CONFIG.retries
DefaultRetries == 3
\* retryDelay: config.retryDelay || 1000
DefaultRetryDelay == 1000

\* retryStatusCodes
RetryStatusCodes == {408, 429, 500, 502, 503, 504}

\* Status of a failed attempt; NoResponse is an error without a response
\* (a timeout or a network error: error.response is undefined).
NoResponse == 0
FailureStatuses == {NoResponse, 401, 404, 501} \cup RetryStatusCodes

\* Configured values; Unset models an absent option.
Unset == -1
ConfiguredRetries == {Unset} \cup (0..MaxRetries)
ConfiguredDelays == {Unset, 250}

\* The retry bound each loop ends up with.
EffectiveRetries(impl, cfg) ==
  IF impl = "_request"
  THEN (IF cfg = Unset \/ cfg = 0 THEN DefaultRetries ELSE cfg)
  ELSE (IF cfg = Unset THEN DefaultRetries ELSE cfg)

EffectiveDelay(impl, cfg) ==
  IF impl = "_request"
  THEN (IF cfg = Unset \/ cfg = 0 THEN DefaultRetryDelay ELSE cfg)
  ELSE (IF cfg = Unset THEN DefaultRetryDelay ELSE cfg)

\* The condition under which a failed attempt is followed by a wait and
\* another attempt.
ShouldRetry(impl, attempt, retries, status) ==
  IF impl = "_request"
  THEN attempt < retries /\ status \in RetryStatusCodes
  ELSE attempt < retries /\ (status = NoResponse \/ status \in RetryStatusCodes)

\* const delay = retryDelay * Math.pow(2, attempt)
BackoffDelay(retryDelay, attempt) == retryDelay * Pow2(attempt)

RetryIdle == rq = IdleRec

RetryInit ==
  \E impl \in {"_request", "requestWithRetry"}, cr \in ConfiguredRetries,
     cd \in ConfiguredDelays :
    rq = [impl |-> impl,
          retries |-> EffectiveRetries(impl, cr),
          retryDelay |-> EffectiveDelay(impl, cd),
          attempt |-> 0,          \* the loop variable
          errors |-> <<>>,        \* status of every failed attempt, in order
          waits |-> <<>>,         \* every delay waited, in order
          pc |-> "attempt",       \* "attempt" | "wait" | "returned" | "threw"
          thrown |-> Unset,       \* status of the error raised to the caller
          data |-> Unset]         \* attempt whose response.data was returned

\* An attempt succeeds: return response.data
RetrySucceed ==
  /\ rq.pc = "attempt"
  /\ rq' = [rq EXCEPT !.pc = "returned", !.data = rq.attempt]
  /\ UNCHANGED nonRetryVars

\* An attempt fails with the given status: retry after a delay, or leave the
\* loop and throw lastError.
RetryFail ==
  /\ rq.pc = "attempt"
  /\ \E status \in FailureStatuses :
       LET errs == Append(rq.errors, status) IN
       IF ShouldRetry(rq.impl, rq.attempt, rq.retries, status)
       THEN rq' = [rq EXCEPT !.errors = errs, !.pc = "wait",
                             !.waits = Append(rq.waits, BackoffDelay(rq.retryDelay, rq.attempt))]
       ELSE rq' = [rq EXCEPT !.errors = errs, !.pc = "threw",
                             !.thrown = errs[Len(errs)]]
  /\ UNCHANGED nonRetryVars

\* The delay has elapsed: attempt++ and the next attempt starts.
RetryWake ==
  /\ rq.pc = "wait"
  /\ rq' = [rq EXCEPT !.pc = "attempt", !.attempt = rq.attempt + 1]
  /\ UNCHANGED nonRetryVars

NextRetry == RetrySucceed \/ RetryFail \/ RetryWake

(***************************************************************************)
(* Request pipeline: processMessage -> handleRequest -> workflow           *)
(***************************************************************************)
Intents == {"event_by_user_query", "security_events_query", "user_activity_query",
            "suspicious_activity_query", "time_based_query", "help_request"}
\* An intent name the switch of handleRequest has no case for.
UnknownIntent == "unknown_intent"

\* Confidence values and thresholds, in hundredths.
\* this.confidenceThreshold = config.confidenceThreshold || 0.3
DefaultConfidenceThreshold == 30
\* intentResult.confidence >= 0.2 in _handleLowConfidence
ClarificationFloor == 20
Confidences == {30, 85, 100}
ConfidenceThresholds == {DefaultConfidenceThreshold, 90}

\* The workflows that wrap their service call and analysis in a try/catch of
\* their own (_handleSecurityEventsQuery, _handleUserActivityQuery).
HandlerHasTry(intent) == intent \in {"security_events_query", "user_activity_query"}

\* A handleRequest that returns the workflow's promise without awaiting it
\* inside the try block.
HandleRequestHasTry_noAwait == FALSE

\* handleRequest: try { switch (intent) { ... return await ... } } catch
HandleRequestHasTry == TRUE

\* The workflows that call the audit service.
WorkflowIntents == Intents \ {"help_request"}

NoResponseYet == [kind |-> "none"]

\* ResponseFormatter.formatApiResponse
FormatApiResponse(kind, success, err) ==
  [kind |-> kind, success |-> (success # FALSE), err |-> err,
   fallback |-> FALSE, clarification |-> FALSE]

\* ChatbotNlpIntegration._createErrorResponse
CreateErrorResponse(kind, err) ==
  [kind |-> kind, success |-> FALSE, err |-> err,
   fallback |-> FALSE, clarification |-> FALSE]

\* ChatbotNlpIntegration._createFallbackResponse
CreateFallbackResponse ==
  [kind |-> "fallback", success |-> TRUE, err |-> "none",
   fallback |-> TRUE, clarification |-> FALSE]

\* Where an exception raised at a stage of a workflow ends up: the innermost
\* enclosing catch block builds the response, or the exception leaves the
\* entry point.
CatchResult(p, stage, err) ==
  IF HandlerHasTry(p.intent) /\ stage \in {"call", "post"}
  THEN [escaped |-> FALSE,
        response |-> FormatApiResponse("workflow_error", FALSE, err)]
  ELSE IF HandleRequestHasTry
  THEN [escaped |-> FALSE,
        response |-> FormatApiResponse("router_error", FALSE, err)]
  ELSE IF p.entry = "processMessage" /\ p.viaLowConfidence
  THEN [escaped |-> FALSE, response |-> CreateFallbackResponse]
  ELSE IF p.entry = "processMessage"
  THEN [escaped |-> FALSE, response |-> CreateErrorResponse("pipeline_error", err)]
  ELSE [escaped |-> TRUE, response |-> NoResponseYet]

\* handleRequest has produced its response: _handleLowConfidence marks it as
\* a clarification, every other caller hands it on unchanged.
Deliver(p, resp) ==
  [p EXCEPT !.pc = "done",
            !.response = IF p.viaLowConfidence
                         THEN [resp EXCEPT !.clarification = TRUE]
                         ELSE resp]

Raise(p, stage, err) ==
  LET c == CatchResult(p, stage, err) IN
  IF c.escaped
  THEN [p EXCEPT !.pc = "done", !.escaped = TRUE, !.raised = TRUE, !.raisedErr = err]
  ELSE [Deliver(p, c.response) EXCEPT !.raised = TRUE, !.raisedErr = err]

PipelineIdle == pm = IdleRec

PipelineInit ==
  \E entry \in {"processMessage", "handleRequest"}, intent \in Intents \cup {UnknownIntent},
     inputsOk \in BOOLEAN, eventTypeKnown \in BOOLEAN, initialized \in BOOLEAN,
     apiKeyOk \in BOOLEAN, conf \in Confidences, thr \in ConfidenceThresholds,
     question \in BOOLEAN :
    \* a direct handleRequest call involves no NLP result
    /\ entry = "handleRequest" =>
         (conf = 100 /\ thr = DefaultConfidenceThreshold /\ ~question /\ apiKeyOk)
    \* the recognizer only names intents of the closed set
    \* and processMessage builds the entity map and the context itself
    /\ entry = "processMessage" => (intent \in Intents /\ inputsOk)
    /\ pm = [pc |-> IF entry = "processMessage" THEN "pm_start" ELSE "hr_start",
             entry |-> entry,
             intent |-> intent,
             inputsOk |-> inputsOk,             \* entity map and context are well formed
             eventTypeKnown |-> eventTypeKnown, \* an event type keyword is found
             initialized |-> initialized,       \* this.initialized
             apiKeyOk |-> apiKeyOk,             \* init() can build the service
             confidence |-> conf,
             threshold |-> thr,
             question |-> question,             \* hasQuestionIndicator
             viaLowConfidence |-> FALSE,
             raised |-> FALSE,                  \* a workflow raised an exception
             raisedErr |-> "none",
             escaped |-> FALSE,                 \* an exception left the entry point
             response |-> NoResponseYet]

\* processMessage: if (!this.initialized) { init ... }
ProcessMessageStart ==
  /\ pm.pc = "pm_start"
  /\ IF pm.initialized
     THEN pm' = [pm EXCEPT !.pc = "pm_nlp"]
     ELSE IF pm.apiKeyOk
     THEN pm' = [pm EXCEPT !.pc = "pm_nlp", !.initialized = TRUE]
     ELSE pm' = [pm EXCEPT !.pc = "done",
                           !.response = CreateErrorResponse("not_connected", "none")]
  /\ UNCHANGED nonPipelineVars

\* processMessage: recognizeIntent, extractEntities, confidence check
ProcessMessageNlp ==
  /\ pm.pc = "pm_nlp"
  /\ IF pm.confidence < pm.threshold
     THEN pm' = [pm EXCEPT !.pc = "low_confidence"]
     ELSE pm' = [pm EXCEPT !.pc = "hr_start"]
  /\ UNCHANGED nonPipelineVars

\* _handleLowConfidence
HandleLowConfidence ==
  /\ pm.pc = "low_confidence"
  /\ IF pm.question /\ pm.confidence >= ClarificationFloor
     THEN pm' = [pm EXCEPT !.pc = "hr_start", !.viaLowConfidence = TRUE]
     ELSE pm' = [pm EXCEPT !.pc = "done", !.response = CreateFallbackResponse]
  /\ UNCHANGED nonPipelineVars

\* handleRequest: the initialized check and the switch on the intent
HandleRequestStart ==
  /\ pm.pc = "hr_start"
  /\ IF ~pm.initialized
     THEN pm' = Deliver(pm, FormatApiResponse("not_connected", FALSE, "none"))
     ELSE IF pm.intent = "help_request"
     THEN pm' = Deliver(pm, FormatApiResponse("help", TRUE, "none"))
     ELSE IF pm.intent \notin Intents
     THEN pm' = Deliver(pm, FormatApiResponse("not_sure", TRUE, "none"))
     ELSE pm' = [pm EXCEPT !.pc = "workflow_pre"]
  /\ UNCHANGED nonPipelineVars

\* The statements of a workflow before its service call: reading the entity
\* map and the context (a TypeError when they are not well formed), and the
\* early returns of _handleEventByUserQuery.
WorkflowPre ==
  /\ pm.pc = "workflow_pre"
  /\ IF ~pm.inputsOk
     THEN pm' = Raise(pm, "pre", "TypeError")
     ELSE IF pm.intent = "event_by_user_query" /\ ~pm.eventTypeKnown
     THEN pm' = Deliver(pm, FormatApiResponse("need_event_type", TRUE, "none"))
     ELSE pm' = [pm EXCEPT !.pc = "workflow_call"]
  /\ UNCHANGED nonPipelineVars

\* The awaited audit service call resolves.
ServiceReturns ==
  /\ pm.pc = "workflow_call"
  /\ pm' = [pm EXCEPT !.pc = "workflow_post"]
  /\ UNCHANGED nonPipelineVars

\* The awaited audit service call rejects.
ServiceThrows ==
  /\ pm.pc = "workflow_call"
  /\ pm' = Raise(pm, "call", "ServiceError")
  /\ UNCHANGED nonPipelineVars

\* The analysis and the rendering after the service call: a success
\* response, or an exception raised by the analyzer.
WorkflowPost ==
  /\ pm.pc = "workflow_post"
  /\ \E ok \in BOOLEAN :
       IF ok
       THEN pm' = Deliver(pm, FormatApiResponse("result", TRUE, "none"))
       ELSE pm' = Raise(pm, "post", "AnalyzerError")
  /\ UNCHANGED nonPipelineVars

NextPipeline ==
  \/ ProcessMessageStart
  \/ ProcessMessageNlp
  \/ HandleLowConfidence
  \/ HandleRequestStart
  \/ WorkflowPre
  \/ ServiceReturns
  \/ ServiceThrows
  \/ WorkflowPost

(***************************************************************************)
(* Anomaly detector                                                        *)
(***************************************************************************)
\* this.securityCriticalEvents
SecurityCriticalEvents ==
  {"org.policy.create", "org.policy.edit", "org.policy.delete",
   "org.ignore_policy.edit",
   "org.integration.create", "org.integration.delete", "org.integration.edit",
   "org.service_account.create", "org.service_account.delete", "org.service_account.edit",
   "org.settings.feature_flag.edit",
   "org.project.ignore.create", "org.project.ignore.delete", "org.project.ignore.edit",
   "org.sast_settings.edit",
   "org.webhook.add", "org.webhook.delete"}

\* Event types that start with 'org.project.test'
ProjectTestEvents == {"org.project.test"}

\* this.businessHoursStart = 8; this.businessHoursEnd = 18
DefaultBusinessHoursStart == 8
DefaultBusinessHoursEnd == 18

\* count > 5
VolumeThreshold == 5

HoursOfDay == 0..23

UnknownUser == <<"u", "n", "k", "n", "o", "w", "n">>
ServiceMarkers == {<<"s", "e", "r", "v", "i", "c", "e">>, <<"b", "o", "t">>,
                   <<"a", "u", "t", "o">>, <<"j", "e", "n", "k", "i", "n", "s">>}

\* A normalized audit event: the UTC hour and the instant of its creation,
\* its type, the actor fields of its content and its top-level user_id.
AuditEvent(hour, stamp, type, contentUser, performedBy, userId) ==
  [created |-> [hour |-> hour, stamp |-> stamp], event |-> type,
   content |-> [user_id |-> contentUser, performed_by |-> performedBy],
   user_id |-> userId]

\* event.content?.user_id || event.content?.performed_by || 'unknown'
DetectorUser(event) ==
  OrElse(event.content.user_id, OrElse(event.content.performed_by, UnknownUser))

\* new Date(event.created).getUTCHours()
UTCHour(event) == event.created.hour

\* _countUserEventTypes: userEventCounts[user][eventType]
CountUserEventTypes(events, user, type) ==
  Cardinality({i \in 1..Len(events) :
                 DetectorUser(events[i]) = user /\ events[i].event = type})

\* Object.keys(userEventCounts)
CountedUsers(events) == Distinct([i \in 1..Len(events) |-> DetectorUser(events[i])])

\* Object.keys(userEventCounts[user])
CountedTypes(events, user) ==
  LET idx == SelectIdx(Len(events), {i \in 1..Len(events) : DetectorUser(events[i]) = user})
  IN Distinct([j \in 1..Len(idx) |-> events[idx[j]].event])

\* count > 5 && this.securityCriticalEvents.includes(eventType)
IsHighVolume(count, type) == count > VolumeThreshold /\ type \in SecurityCriticalEvents

\* The end hour itself counted as after hours.
OutsideBusinessHours_endExclusive(hour, start, end) == hour < start \/ hour >= end

\* hour < this.businessHoursStart || hour > this.businessHoursEnd
OutsideBusinessHours(hour, start, end) == hour < start \/ hour > end

\* The actor test of the service account rule.
LooksLikeServiceAccount(user) ==
  \E marker \in ServiceMarkers : Includes(ToLowerCase(user), marker)

\* Rule 1: high volume of one security-critical event type by one user.
VolumeRecords(events) ==
  LET users == CountedUsers(events)
      perUser(u) ==
        LET types == CountedTypes(events, u)
            hit == SelectIdx(Len(types),
                     {j \in 1..Len(types) :
                        IsHighVolume(CountUserEventTypes(events, u, types[j]), types[j])})
        IN [j \in 1..Len(hit) |->
              [type |-> "high_volume_sensitive_actions", user |-> u,
               eventType |-> types[hit[j]],
               count |-> CountUserEventTypes(events, u, types[hit[j]]),
               time |-> 0, severity |-> "medium"]]
  IN FlattenSeq([k \in 1..Len(users) |-> perUser(users[k])])

\* Rule 2: security-critical events outside business hours.
AfterHoursRecords(events, start, end) ==
  LET hit == SelectIdx(Len(events),
               {i \in 1..Len(events) :
                  /\ OutsideBusinessHours(UTCHour(events[i]), start, end)
                  /\ events[i].event \in SecurityCriticalEvents})
  IN [j \in 1..Len(hit) |->
        [type |-> "after_hours_activity", user |-> DetectorUser(events[hit[j]]),
         eventType |-> events[hit[j]].event, count |-> 0,
         time |-> events[hit[j]].created.stamp, severity |-> "medium"]]

\* Rule 3: security-critical events by what looks like a service account.
ServiceAccountRecords(events) ==
  LET hit == SelectIdx(Len(events),
               {i \in 1..Len(events) :
                  /\ LooksLikeServiceAccount(DetectorUser(events[i]))
                  /\ events[i].event \notin ProjectTestEvents
                  /\ events[i].event \in SecurityCriticalEvents})
  IN [j \in 1..Len(hit) |->
        [type |-> "service_account_unusual_activity",
         user |-> DetectorUser(events[hit[j]]),
         eventType |-> events[hit[j]].event, count |-> 0,
         time |-> events[hit[j]].created.stamp, severity |-> "high"]]

\* A detector whose later rules run only when the earlier ones found nothing.
DetectAnomaliesResult_firstRuleWins(events, start, end) ==
  IF VolumeRecords(events) # <<>> THEN VolumeRecords(events)
  ELSE IF AfterHoursRecords(events, start, end) # <<>>
  THEN AfterHoursRecords(events, start, end)
  ELSE ServiceAccountRecords(events)

\* detectAnomalies(events)
DetectAnomaliesResult(events, start, end) ==
  VolumeRecords(events) \o AfterHoursRecords(events, start, end)
    \o ServiceAccountRecords(events)

\* ---- inputs
\* Bound on the length of the event lists of the volume specification.
MaxEvents == 6

Ann == <<"a", "n", "n">>
Bob == <<"b", "o", "b">>
BuildBot == <<"B", "u", "i", "l", "d", "-", "B", "o", "t">>

\* The kinds of event the long lists are made of: an actor named by either
\* content field, two actors named by the top-level user_id only (the shape
\* fetchAllPages gives an event whose content names nobody), a
\* security-critical and an ordinary type, inside and outside the default
\* business hours.
VolumeEventKinds ==
  {AuditEvent(10, 1, "org.policy.edit", BuildBot, Absent, Absent),
   AuditEvent(3, 2, "org.policy.edit", Absent, BuildBot, BuildBot),
   AuditEvent(10, 3, "org.policy.edit", Absent, Absent, Ann),
   AuditEvent(10, 4, "org.policy.edit", Absent, Absent, Bob),
   AuditEvent(3, 5, "org.user.add", BuildBot, Absent, Absent)}

RECURSIVE SeqsUpTo(_, _)
SeqsUpTo(S, n) ==
  IF n = 0 THEN {<<>>}
  ELSE LET shorter == SeqsUpTo(S, n - 1)
       IN shorter \cup {Append(sq, x) : sq \in {t \in shorter : Len(t) = n - 1}, x \in S}

\* The event of the hours specification: any hour of the day, a
\* security-critical or an ordinary type.
HourEventKinds ==
  {AuditEvent(h, 1, t, Ann, Absent, Absent) :
     h \in HoursOfDay, t \in {"org.policy.edit", "org.webhook.delete", "org.user.add"}}

\* A daytime event that accompanies the probed one.
DaytimeEvent == AuditEvent(12, 2, "org.integration.edit", Absent, Absent, Ann)

AnomalyIdle == ad = IdleRec

\* constructor() of AnomalyDetector, and the list handed to detectAnomalies
AnomalyInit(lists) ==
  \E events \in lists :
    ad = [pc |-> "constructed",
          businessHoursStart |-> DefaultBusinessHoursStart,
          businessHoursEnd |-> DefaultBusinessHoursEnd,
          events |-> events,
          suspiciousActivities |-> <<>>]

\* setBusinessHours(start, end), which the chatbot's constructor calls once
\* when the configuration names both hours
SetBusinessHours(windows) ==
  /\ ad.pc = "constructed"
  /\ \E w \in windows :
       ad' = [ad EXCEPT !.pc = "configured",
                        !.businessHoursStart = w[1], !.businessHoursEnd = w[2]]
  /\ UNCHANGED nonAnomalyVars

\* detectAnomalies(events)
DetectAnomalies ==
  /\ ad.pc \in {"constructed", "configured"}
  /\ ad' = [ad EXCEPT !.pc = "detected",
                      !.suspiciousActivities =
                         DetectAnomaliesResult(ad.events, ad.businessHoursStart,
                                               ad.businessHoursEnd)]
  /\ UNCHANGED nonAnomalyVars

VolumeWindows == {<<9, 17>>}
AllWindows == HoursOfDay \X HoursOfDay

SetBusinessHoursVolume == SetBusinessHours(VolumeWindows)
SetBusinessHoursAny == SetBusinessHours(AllWindows)

NextAnomaly == SetBusinessHoursVolume \/ DetectAnomalies
NextAnomalyHours == SetBusinessHoursAny \/ DetectAnomalies

(***************************************************************************)
(* Security event analyzer                                                 *)
(***************************************************************************)
\* this.highPriorityEvents
HighPriorityEvents ==
  {"org.policy.create", "org.policy.delete", "org.service_account.create",
   "org.webhook.add"}

\* this.mediumPriorityEvents
MediumPriorityEvents ==
  {"org.policy.edit", "org.integration.create", "org.integration.edit",
   "org.settings.feature_flag.edit", "org.project.ignore.create"}

\* Every tier falls to low priority.
TierOf_allLow(analyzer, type) == "low"

\* if (high.includes(event.event)) ... else if (medium.includes(event.event)) ... else
TierOf(analyzer, type) ==
  IF type \in analyzer.highPriorityEvents THEN "high"
  ELSE IF type \in analyzer.mediumPriorityEvents THEN "medium"
  ELSE "low"

\* The events of one tier, in input order.
EventsOfTier(analyzer, events, tier) ==
  LET idx == SelectIdx(Len(events),
               {i \in 1..Len(events) : TierOf(analyzer, events[i].event) = tier})
  IN [j \in 1..Len(idx) |-> events[idx[j]]]

\* categorizeSecurityEvents(events)
CategorizeSecurityEventsResult(analyzer, events) ==
  [highPriority |-> EventsOfTier(analyzer, events, "high"),
   mediumPriority |-> EventsOfTier(analyzer, events, "medium"),
   lowPriority |-> EventsOfTier(analyzer, events, "low"),
   all |-> events]

\* ---- inputs
\* Bound on the length of the categorized lists and on the number of calls.
MaxSecurityEvents == 3
MaxCategorizeCalls == 2

\* Events of the three tiers; a type of no list, and a type that is
\* security-critical and of no priority list.
SecurityEventTypes ==
  <<"org.policy.create", "org.webhook.add", "org.policy.edit",
    "org.project.ignore.create", "org.webhook.delete", "org.user.add">>

SecurityEventKinds ==
  {AuditEvent(10, s, SecurityEventTypes[s], Absent, Absent, Ann) :
     s \in 1..Len(SecurityEventTypes)}

CategorizeIdle == sa = IdleRec

\* constructor() of SecurityEventAnalyzer, and the list the caller holds
CategorizeInit ==
  \E events \in SeqsUpTo(SecurityEventKinds, MaxSecurityEvents) :
    sa = [pc |-> "constructed",
          analyzer |-> [highPriorityEvents |-> HighPriorityEvents,
                        mediumPriorityEvents |-> MediumPriorityEvents],
          events |-> events,
          results |-> <<>>]

\* One call of categorizeSecurityEvents(events) on the list the caller holds.
CategorizeSecurityEvents ==
  /\ sa.pc = "constructed"
  /\ Len(sa.results) < MaxCategorizeCalls
  /\ sa' = [sa EXCEPT !.results =
                Append(@, CategorizeSecurityEventsResult(sa.analyzer, sa.events))]
  /\ UNCHANGED nonCategorizeVars

NextCategorize == CategorizeSecurityEvents

(***************************************************************************)
(* User activity analyzer                                                  *)
(***************************************************************************)
\* event.user_id || event.content?.user_id || event.content?.performed_by || 'unknown'
ActivityUser(event) ==
  OrElse(event.user_id,
         OrElse(event.content.user_id, OrElse(event.content.performed_by, UnknownUser)))

\* Events of one user, in input order: userEventMap[user]
UserEvents(events, user) ==
  LET idx == SelectIdx(Len(events), {i \in 1..Len(events) : ActivityUser(events[i]) = user})
  IN [j \in 1..Len(idx) |-> events[idx[j]]]

\* Object.keys(userEventMap)
GroupedUsers(events) == Distinct([i \in 1..Len(events) |-> ActivityUser(events[i])])

\* [...userEvents].sort((a, b) => new Date(b.created) - new Date(a.created)):
\* a stable sort, latest first.
RECURSIVE SortByCreatedDesc(_)
SortByCreatedDesc(events) ==
  IF events = <<>> THEN <<>>
  ELSE LET rest == SortByCreatedDesc(SubSeq(events, 1, Len(events) - 1))
           x == events[Len(events)]
           before == {j \in 1..Len(rest) : rest[j].created.stamp >= x.created.stamp}
           k == Cardinality(before)
       IN SubSeq(rest, 1, k) \o <<x>> \o SubSeq(rest, k + 1, Len(rest))

\* Object.entries(eventTypeCounts).sort((a, b) => b[1] - a[1])
RECURSIVE SortByCountDesc(_)
SortByCountDesc(entries) ==
  IF entries = <<>> THEN <<>>
  ELSE LET rest == SortByCountDesc(SubSeq(entries, 1, Len(entries) - 1))
           x == entries[Len(entries)]
           before == {j \in 1..Len(rest) : rest[j].count >= x.count}
           k == Cardinality(before)
       IN SubSeq(rest, 1, k) \o <<x>> \o SubSeq(rest, k + 1, Len(rest))

\* summarizeEventTypes(events)
SummarizeEventTypes(events) ==
  LET types == Distinct([i \in 1..Len(events) |-> events[i].event])
  IN SortByCountDesc([j \in 1..Len(types) |->
       [type |-> types[j],
        count |-> Cardinality({i \in 1..Len(events) : events[i].event = types[j]})]])

\* Array.prototype.slice(0, n)
Slice(sq, n) == SubSeq(sq, 1, IF Len(sq) < n THEN Len(sq) ELSE n)

\* ---- the roster chain: the members endpoint, SnykApiClient.getAllOrgUsers
\* and SnykAuditService.getAllOrgUsers
AuthenticationError == "Authentication error: API key may be invalid or expired"
PermissionError == "Permission error: API key may not have sufficient permissions"
NotFoundError == "Not found error: Organization ID may be invalid"
OtherApiError == "API error: Status"
NetworkError == "Network or connection error"
UnknownApiError == "Unknown API error"
NoErrorType == "null"

\* The errorType the client puts on the error it catches.
ClientErrorType(status) ==
  IF status = NoResponse THEN NetworkError
  ELSE IF status = 401 THEN AuthenticationError
  ELSE IF status = 403 THEN PermissionError
  ELSE IF status = 404 THEN NotFoundError
  ELSE OtherApiError

\* SnykApiClient.getAllOrgUsers: the members of an array answer, in the flat
\* shape of the members endpoint; an empty list for any other answer and for
\* every failure, whose error is logged and not thrown.
ClientGetAllOrgUsers(endpoint) ==
  IF endpoint.status = 200 /\ endpoint.isArray
  THEN [i \in 1..Len(endpoint.members) |->
          [id |-> endpoint.members[i].id, name |-> endpoint.members[i].name,
           username |-> endpoint.members[i].username,
           email |-> endpoint.members[i].email, role |-> endpoint.members[i].role]]
  ELSE <<>>

\* user.attributes || {}
AttributesOf(user) ==
  IF "attributes" \in DOMAIN user THEN user.attributes
  ELSE [name |-> Absent, username |-> Absent, email |-> Absent]

UserPrefix == <<"u", "s", "e", "r", " ">>
\* userId.substring(0, 8)
ShortId(id) == Slice(id, 8)

\* name ? (email ? `${name} (${email})` : name) : (email || `user ${shortId}`)
DisplayName(name, email, id) ==
  IF name # Absent
  THEN (IF email # Absent THEN name \o <<" ", "(">> \o email \o <<")">> ELSE name)
  ELSE OrElse(email, UserPrefix \o ShortId(id))

\* users.map(user => ...) of SnykAuditService.getAllOrgUsers
ProcessedUsers(users) ==
  [i \in 1..Len(users) |->
     LET userData == AttributesOf(users[i])
     IN [id |-> users[i].id, name |-> userData.name, username |-> userData.username,
         email |-> userData.email,
         displayName |-> DisplayName(userData.name, userData.email, users[i].id)]]

NotCached == [cached |-> FALSE, users |-> <<>>]

\* SnykAuditService.getAllOrgUsers(orgId): the cached roster when there is
\* one, else the processed answer of the client, which it caches.
ServiceGetAllOrgUsers(cache, endpoint) ==
  IF cache.cached THEN cache.users ELSE ProcessedUsers(ClientGetAllOrgUsers(endpoint))

\* SnykAuditService.getUserInfo(userId) for an id that is not cached: the
\* name the users endpoint gives, the id's first 8 characters otherwise.
ServiceGetUserInfo(id, usersEndpointOk, directoryName) ==
  LET name == IF usersEndpointOk THEN directoryName ELSE Absent
  IN [id |-> id, name |-> OrElse(name, ShortId(id)), username |-> Absent,
      email |-> Absent, displayName |-> DisplayName(name, Absent, id)]

\* ---- results of analyzeUserActivity; a field the literal leaves out is
\* "undefined" (Unset for a number)
EmptyResult ==
  [kind |-> "none", userId |-> Absent, userName |-> Absent, userEmail |-> Absent,
   totalActions |-> Unset, mostFrequentActivities |-> <<>>, recentActions |-> <<>>,
   knownUser |-> "undefined", allOrgUsers |-> <<>>, orgUsersAvailable |-> "undefined",
   apiErrorType |-> NoErrorType, userSummaries |-> <<>>, allEvents |-> <<>>]

Tri(b) == IF b THEN "true" ELSE "false"

\* analyzeSpecificUserActivity(userEvents)
AnalyzeSpecificUserActivity(userEvents, lastApiErrorType) ==
  LET sortedEvents == SortByCreatedDesc(userEvents)
      recent == Slice(sortedEvents, 5)
  IN [EmptyResult EXCEPT
        !.kind = "specific_user",
        !.totalActions = Len(userEvents),
        !.mostFrequentActivities = Slice(SummarizeEventTypes(userEvents), 5),
        !.recentActions = [j \in 1..Len(recent) |->
                             [event |-> recent[j].event, time |-> recent[j].created,
                              content |-> recent[j].content]],
        !.allEvents = sortedEvents,
        !.knownUser = "true",
        !.apiErrorType = lastApiErrorType]

\* The user of the roster is known and has no events.
KnownUserWithoutEvents(matchingUser, orgUsers, orgUsersAvailable, lastApiErrorType) ==
  [EmptyResult EXCEPT
     !.kind = "known_user_no_events",
     !.userId = matchingUser.id, !.userName = matchingUser.name,
     !.userEmail = matchingUser.email, !.totalActions = 0,
     !.knownUser = "true", !.allOrgUsers = orgUsers,
     !.orgUsersAvailable = Tri(orgUsersAvailable), !.apiErrorType = lastApiErrorType]

\* The name is not in the roster.
UnknownUserResult(userId, orgUsers, orgUsersAvailable, lastApiErrorType) ==
  [EmptyResult EXCEPT
     !.kind = "unknown_user", !.userId = userId, !.totalActions = 0,
     !.knownUser = "false", !.allOrgUsers = orgUsers,
     !.orgUsersAvailable = Tri(orgUsersAvailable), !.apiErrorType = lastApiErrorType]

\* The summary of all user activity; orgUsersAvailable is the function's
\* outer variable, which stays false.
AllUsersSummary(events, lastApiErrorType) ==
  LET users == GroupedUsers(events)
  IN [EmptyResult EXCEPT
        !.kind = "all_users",
        !.userSummaries =
           [k \in 1..Len(users) |->
              [userId |-> users[k],
               eventCount |-> Len(UserEvents(events, users[k])),
               lastActive |-> UserEvents(events, users[k])[1].created,
               eventTypes |-> SummarizeEventTypes(UserEvents(events, users[k]))]],
        !.allEvents = events,
        !.orgUsersAvailable = "false",
        !.apiErrorType = lastApiErrorType]

\* user.name && user.name.toLowerCase() === userId.toLowerCase()
NameMatches(name, userId) == name # Absent /\ ToLowerCase(name) = ToLowerCase(userId)

\* orgUsers.find(...): the index of the first user of that name, 0 if none
FindByName(orgUsers, userId) ==
  IF \E i \in 1..Len(orgUsers) : NameMatches(orgUsers[i].name, userId)
  THEN CHOOSE i \in 1..Len(orgUsers) :
         /\ NameMatches(orgUsers[i].name, userId)
         /\ \A j \in 1..(i - 1) : ~NameMatches(orgUsers[j].name, userId)
  ELSE 0

\* The result of the roster branch, taken when the roster is not empty.
RosterBranchResult(events, userId, orgUsers, lastApiErrorType) ==
  LET m == FindByName(orgUsers, userId)
  IN IF m # 0
     THEN (IF UserEvents(events, orgUsers[m].id) # <<>>
           THEN AnalyzeSpecificUserActivity(UserEvents(events, orgUsers[m].id),
                                            lastApiErrorType)
           ELSE KnownUserWithoutEvents(orgUsers[m], orgUsers, TRUE, lastApiErrorType))
     ELSE UnknownUserResult(userId, orgUsers, TRUE, lastApiErrorType)

\* ---- generateUserActivitySummary(userActivity, userId): what the message
\* begins with, the names it lists and the issue it reports
SuggestionLimit == 10

\* allOrgUsers.filter(user => user.name).slice(0, 10)
SuggestedUsers(allOrgUsers) ==
  LET idx == SelectIdx(Len(allOrgUsers),
               {i \in 1..Len(allOrgUsers) : allOrgUsers[i].name # Absent})
  IN Slice([j \in 1..Len(idx) |-> allOrgUsers[idx[j]].name], SuggestionLimit)

Message(head, listed, issue) == [head |-> head, listed |-> listed, detectedIssue |-> issue]

GenerateUserActivitySummary(userActivity, userId) ==
  IF userId # Absent
  THEN IF userActivity.knownUser = "false"
       THEN (IF Len(userActivity.allOrgUsers) > 0
             THEN Message("no_user_of_that_name", SuggestedUsers(userActivity.allOrgUsers),
                          NoErrorType)
             ELSE IF userActivity.orgUsersAvailable = "false"
             THEN Message("no_users_in_organization", <<>>, userActivity.apiErrorType)
             ELSE Message("no_user_of_that_name", <<>>, NoErrorType))
       ELSE IF userActivity.knownUser = "true" /\ userActivity.totalActions = 0
       THEN Message("known_user_no_activity", <<>>, NoErrorType)
       ELSE IF userActivity.totalActions # Unset /\ userActivity.totalActions > 0
       THEN Message("activity_summary", <<>>, NoErrorType)
       ELSE IF userActivity.knownUser = "true"
       THEN Message("known_user_no_actions", <<>>, NoErrorType)
       ELSE Message("no_activity_for_user", <<>>, NoErrorType)
  ELSE IF Len(userActivity.userSummaries) > 0
       THEN Message("all_users_summary", <<>>, NoErrorType)
       ELSE Message("no_user_activity", <<>>, NoErrorType)

\* ---- inputs
\* Bounds on the members of the organization and on the event list.
MaxRoster == 13
MaxActivityEvents == 2

Cesar == <<"C", "e", "s", "a", "r">>
CesarTyped == <<"c", "e", "s", "a", "r">>
NonExistentUser == <<"N", "o", "b", "o", "d", "y">>

\* The members of the organization as the members endpoint lists them: the
\* first is Cesar, the third has no name, every second one has no email.
MemberId(i) == <<"u", "-", LowerCase[i]>>
MemberName(i) ==
  IF i = 1 THEN Cesar ELSE IF i = 3 THEN Absent ELSE <<"M", LowerCase[i]>>
MemberEmail(i) == IF i % 2 = 0 THEN Absent ELSE <<LowerCase[i], "@", "x">>
Member(i) ==
  [id |-> MemberId(i), name |-> MemberName(i), username |-> Absent,
   email |-> MemberEmail(i), role |-> "collaborator"]
Members(first, last) == [k \in 1..(last - first + 1) |-> Member(first + k - 1)]

\* The name the users endpoint gives for an id.
DirectoryName(id) ==
  IF \E i \in 1..MaxRoster : MemberId(i) = id
  THEN MemberName(CHOOSE i \in 1..MaxRoster : MemberId(i) = id)
  ELSE Absent

\* The members endpoint: an array answer with the members from Cesar or from
\* the second member on, an answer that is no array, or a failure.
MembersEndpoints ==
  {[status |-> 200, isArray |-> TRUE, members |-> Members(first, last)] :
     first \in {1, 2}, last \in 1..MaxRoster}
  \cup {[status |-> 200, isArray |-> FALSE, members |-> Members(1, 2)]}
  \cup {[status |-> st, isArray |-> FALSE, members |-> Members(1, 2)] :
          st \in {401, 403, 404, 500, NoResponse}}

\* The events handed to the analyzer: by the first member, by the second,
\* by nobody, and a later one by the first member.
ActivityEventKinds ==
  {AuditEvent(10, 1, "org.user.invite", Absent, Absent, MemberId(1)),
   AuditEvent(11, 2, "org.policy.edit", MemberId(2), Absent, Absent),
   AuditEvent(12, 3, "org.user.invite", Absent, Absent, Absent),
   AuditEvent(13, 4, "org.policy.edit", Absent, Absent, MemberId(1))}

\* What the caller asks about: nobody, a name as typed, a name the
\* organization does not have, a name of the second member, an id.
RequestedUsers == {Absent, CesarTyped, NonExistentUser, MemberName(2), MemberId(1)}

ActivityIdle == ua = IdleRec

\* new UserActivityAnalyzer(auditService, orgId) over a new SnykAuditService,
\* and the arguments of analyzeUserActivity(events, userId)
ActivityInit ==
  \E events \in SeqsUpTo(ActivityEventKinds, MaxActivityEvents),
     userId \in RequestedUsers,
     endpoint \in MembersEndpoints,
     wiring \in {"service_and_org", "service_no_org", "no_service"},
     usersEndpointOk \in BOOLEAN :
    /\ (wiring # "service_and_org") => endpoint.members = Members(1, 2)
    /\ ua = [pc |-> "called",
             events |-> events, userId |-> userId,
             auditService |-> (wiring # "no_service"),
             orgId |-> (wiring = "service_and_org"),
             endpoint |-> endpoint, usersEndpointOk |-> usersEndpointOk,
             orgUsersCache |-> NotCached, userCache |-> <<>>,
             loggedErrorType |-> NoErrorType,
             lastApiErrorType |-> NoErrorType,
             pending |-> <<>>,
             result |-> EmptyResult,
             message |-> Message("none", <<>>, NoErrorType)]

\* analyzeUserActivity up to the roster lookup: grouping, the direct match,
\* the summary of all users when no user is asked about or no service is set.
AnalyzeStart ==
  /\ ua.pc = "called"
  /\ IF ua.userId # Absent /\ UserEvents(ua.events, ua.userId) # <<>>
     THEN ua' = [ua EXCEPT !.pc = "analyzed", !.lastApiErrorType = NoErrorType,
                   !.result = AnalyzeSpecificUserActivity(
                                UserEvents(ua.events, ua.userId), NoErrorType)]
     ELSE IF ua.userId # Absent /\ ua.auditService
     THEN ua' = [ua EXCEPT !.pc = "lookup", !.lastApiErrorType = NoErrorType]
     ELSE ua' = [ua EXCEPT !.pc = "analyzed", !.lastApiErrorType = NoErrorType,
                   !.result = AllUsersSummary(ua.events, NoErrorType)]
  /\ UNCHANGED nonActivityVars

\* The roster lookup with an organization id: auditService.getAllOrgUsers
\* resolves (the client has caught every failure and logged its errorType),
\* the service caches what it returns, and the roster branch decides.
RosterLookup ==
  /\ ua.pc = "lookup"
  /\ ua.orgId
  /\ LET orgUsers == ServiceGetAllOrgUsers(ua.orgUsersCache, ua.endpoint)
         logged == IF ~ua.orgUsersCache.cached /\ ua.endpoint.status # 200
                   THEN ClientErrorType(ua.endpoint.status) ELSE ua.loggedErrorType
         afterCall == [ua EXCEPT !.orgUsersCache = [cached |-> TRUE, users |-> orgUsers],
                         !.userCache = orgUsers \o @,
                         !.loggedErrorType = logged]
     IN IF Len(orgUsers) > 0
        THEN ua' = [afterCall EXCEPT !.pc = "analyzed",
                      !.result = RosterBranchResult(ua.events, ua.userId, orgUsers,
                                                     ua.lastApiErrorType)]
        ELSE ua' = [afterCall EXCEPT !.pc = "fallback",
                      !.pending = SelectSeq(GroupedUsers(ua.events),
                                            LAMBDA id : id # UnknownUser)]
  /\ UNCHANGED nonActivityVars

\* The roster lookup without an organization id: the Error thrown is caught
\* and classified by its message.
NoOrganizationId ==
  /\ ua.pc = "lookup"
  /\ ~ua.orgId
  /\ ua' = [ua EXCEPT !.pc = "fallback", !.lastApiErrorType = UnknownApiError,
              !.pending = SelectSeq(GroupedUsers(ua.events),
                                    LAMBDA id : id # UnknownUser)]
  /\ UNCHANGED nonActivityVars

\* The cached UserInfo of an id, none if the id is not cached.
CachedUserInfo(userCache, id) ==
  SelectSeq(userCache, LAMBDA info : info.id = id)

\* One turn of the fallback loop: auditService.getUserInfo(id), which caches
\* what it returns, and the comparison of the name.
FallbackCheck ==
  /\ ua.pc = "fallback"
  /\ ua.pending # <<>>
  /\ LET id == Head(ua.pending)
         cached == CachedUserInfo(ua.userCache, id)
         userInfo == IF cached # <<>> THEN cached[1]
                     ELSE ServiceGetUserInfo(id, ua.usersEndpointOk, DirectoryName(id))
         userCache == IF cached # <<>> THEN ua.userCache ELSE <<userInfo>> \o ua.userCache
     IN IF NameMatches(userInfo.name, ua.userId)
        THEN ua' = [ua EXCEPT !.pc = "analyzed", !.userCache = userCache,
                      !.pending = <<>>,
                      !.result = AnalyzeSpecificUserActivity(UserEvents(ua.events, id),
                                                             ua.lastApiErrorType)]
        ELSE ua' = [ua EXCEPT !.userCache = userCache, !.pending = Tail(@)]
  /\ UNCHANGED nonActivityVars

\* No user of the events has the name: the summary of all user activity.
FallbackExhausted ==
  /\ ua.pc = "fallback"
  /\ ua.pending = <<>>
  /\ ua' = [ua EXCEPT !.pc = "analyzed",
              !.result = AllUsersSummary(ua.events, ua.lastApiErrorType)]
  /\ UNCHANGED nonActivityVars

\* generateUserActivitySummary(userActivity, userId) on the result
GenerateSummary ==
  /\ ua.pc = "analyzed"
  /\ ua' = [ua EXCEPT !.pc = "rendered",
              !.message = GenerateUserActivitySummary(ua.result, ua.userId)]
  /\ UNCHANGED nonActivityVars

NextActivity ==
  \/ AnalyzeStart
  \/ RosterLookup
  \/ NoOrganizationId
  \/ FallbackCheck
  \/ FallbackExhausted
  \/ GenerateSummary

(***************************************************************************)
(* Regular expressions of the NLP components                               *)
(***************************************************************************)
\* The characters of a string literal.
Chars(str) == [i \in 1..Len(str) |-> SubSeq(str, i, i)]

Digits == {"0", "1", "2", "3", "4", "5", "6", "7", "8", "9"}
LowerLetters == {LowerCase[i] : i \in 1..Len(LowerCase)}
UpperLetters == {UpperCase[i] : i \in 1..Len(UpperCase)}
WhiteSpace == {" ", "\t", "\n"}

\* Membership of a character in a character class: \w, \d, [\w.-], [A-Z],
\* [a-z], [1-4] and the dot; with the i flag a letter class holds both cases.
InClass(c, class, ignoreCase) ==
  CASE class = "\\w" -> c \in LowerLetters \cup UpperLetters \cup Digits \cup {"_"}
    [] class = "\\d" -> c \in Digits
    [] class = "[\\w.-]" -> c \in LowerLetters \cup UpperLetters \cup Digits \cup {"_", ".", "-"}
    [] class = "[A-Z]" -> c \in UpperLetters \/ (ignoreCase /\ c \in LowerLetters)
    [] class = "[a-z]" -> c \in LowerLetters \/ (ignoreCase /\ c \in UpperLetters)
    [] class = "[1-4]" -> c \in {"1", "2", "3", "4"}
    [] class = "." -> c # "\n"

\* The nodes of a pattern: literal text, a repeated character class (max 0
\* for no upper limit), a capturing group of alternatives, a concatenation,
\* an optional node, a negative lookahead, and the anchors.
Lit(str) == [t |-> "lit", s |-> Chars(str)]
Rep(class, min, max) == [t |-> "rep", class |-> class, min |-> min, max |-> max]
Cap(k, alts) == [t |-> "cap", k |-> k, alts |-> alts]
Cat(rs) == [t |-> "cat", rs |-> rs]
Opt(r) == [t |-> "opt", r |-> r]
NotAhead(r) == [t |-> "nla", r |-> r]
Bol == [t |-> "bol"]
Eol == [t |-> "eol"]

\* A group that did not take part in the match.
NoCapture == <<"undefined">>
MaxGroups == 3
NoCaptures == [k \in 1..MaxGroups |-> NoCapture]

\* The length of the longest run of class characters from position i, at
\* most limit long.
RECURSIVE RunLength(_, _, _, _, _)
RunLength(s, i, class, ignoreCase, limit) ==
  IF limit = 0 \/ i > Len(s) \/ ~InClass(s[i], class, ignoreCase) THEN 0
  ELSE 1 + RunLength(s, i + 1, class, ignoreCase, limit - 1)

\* The ways node r matches s from position i, given the captures so far, in
\* the order a backtracking matcher tries them (greedy repeats first): each
\* way is the position after the match and the captures.
RECURSIVE MatchNode(_, _, _, _, _)
RECURSIVE MatchCat(_, _, _, _, _, _)
MatchNode(r, s, i, caps, ignoreCase) ==
  CASE r.t = "lit" ->
         LET n == Len(r.s)
             same(a, b) == IF ignoreCase THEN ToLowerCase(a) = ToLowerCase(b) ELSE a = b
         IN IF i + n - 1 <= Len(s) /\ same(SubSeq(s, i, i + n - 1), r.s)
            THEN <<[e |-> i + n, c |-> caps]>> ELSE <<>>
    [] r.t = "rep" ->
         LET longest == RunLength(s, i, r.class, ignoreCase,
                                  IF r.max = 0 THEN Len(s) ELSE r.max)
         IN IF longest < r.min THEN <<>>
            ELSE [m \in 1..(longest - r.min + 1) |-> [e |-> i + longest - m + 1, c |-> caps]]
    [] r.t = "cap" ->
         FlattenSeq([a \in 1..Len(r.alts) |->
           LET ways == MatchNode(r.alts[a], s, i, caps, ignoreCase)
           IN [m \in 1..Len(ways) |->
                 [e |-> ways[m].e,
                  c |-> [ways[m].c EXCEPT ![r.k] = SubSeq(s, i, ways[m].e - 1)]]]])
    [] r.t = "cat" -> MatchCat(r.rs, 1, s, i, caps, ignoreCase)
    [] r.t = "opt" -> MatchNode(r.r, s, i, caps, ignoreCase) \o <<[e |-> i, c |-> caps]>>
    [] r.t = "nla" ->
         IF MatchNode(r.r, s, i, caps, ignoreCase) = <<>>
         THEN <<[e |-> i, c |-> caps]>> ELSE <<>>
    [] r.t = "bol" -> IF i = 1 THEN <<[e |-> i, c |-> caps]>> ELSE <<>>
    [] r.t = "eol" -> IF i = Len(s) + 1 THEN <<[e |-> i, c |-> caps]>> ELSE <<>>
MatchCat(rs, n, s, i, caps, ignoreCase) ==
  IF n > Len(rs) THEN <<[e |-> i, c |-> caps]>>
  ELSE LET ways == MatchNode(rs[n], s, i, caps, ignoreCase)
       IN FlattenSeq([m \in 1..Len(ways) |->
                        MatchCat(rs, n + 1, s, ways[m].e, ways[m].c, ignoreCase)])

\* A pattern: its source text as toString() gives it, its i flag, its nodes.
Pattern(source, ignoreCase, re) == [source |-> source, ignoreCase |-> ignoreCase, re |-> re]

\* The positions from which the pattern matches.
MatchStarts(pattern, s) ==
  {i \in 1..(Len(s) + 1) :
     MatchNode(pattern.re, s, i, NoCaptures, pattern.ignoreCase) # <<>>}

\* RegExp.prototype.test
RegexTest(pattern, s) == MatchStarts(pattern, s) # {}

\* String.prototype.match without the g flag: the leftmost match, of the
\* ways from there the first; match[0] and the groups.  Only used when the
\* pattern matches.
RegexMatch(pattern, s) ==
  LET i == CHOOSE i \in MatchStarts(pattern, s) : \A j \in MatchStarts(pattern, s) : i <= j
      way == MatchNode(pattern.re, s, i, NoCaptures, pattern.ignoreCase)[1]
  IN [whole |-> SubSeq(s, i, way.e - 1), groups |-> way.c]


(***************************************************************************)
(* Intent recognizer: IntentRecognizer.recognizeIntent                     *)
(* Confidences and keyword scores are in thousandths.                      *)
(***************************************************************************)
\* intentPatterns of src/nlp/intentRecognizer.js: five intents, in declaration order.
IntentPatterns5 ==
  <<[intent |-> "security_events_query", patterns |-> <<
       Pattern("/security (events|incidents)/i", TRUE, Cat(<<Lit("security "), Cap(1, <<Lit("events"), Lit("incidents")>>)>>)),
       Pattern("/recent (\\w+ )?security/i", TRUE, Cat(<<Lit("recent "), Opt(Cap(1, <<Cat(<<Rep("\\w", 1, 0), Lit(" ")>>)>>)), Lit("security")>>)),
       Pattern("/show me security/i", TRUE, Lit("show me security")),
       Pattern("/(any|recent) (security )?(issues|events|incidents)/i", TRUE, Cat(<<Cap(1, <<Lit("any"), Lit("recent")>>), Lit(" "), Opt(Cap(2, <<Lit("security ")>>)), Cap(3, <<Lit("issues"), Lit("events"), Lit("incidents")>>)>>)),
       Pattern("/security (concerns|problems)/i", TRUE, Cat(<<Lit("security "), Cap(1, <<Lit("concerns"), Lit("problems")>>)>>)),
       Pattern("/policy changes/i", TRUE, Lit("policy changes")),
       Pattern("/integration (changes|updates)/i", TRUE, Cat(<<Lit("integration "), Cap(1, <<Lit("changes"), Lit("updates")>>)>>)),
       Pattern("/webhook (changes|updates)/i", TRUE, Cat(<<Lit("webhook "), Cap(1, <<Lit("changes"), Lit("updates")>>)>>)),
       Pattern("/service account changes/i", TRUE, Lit("service account changes"))>>],
    [intent |-> "user_activity_query", patterns |-> <<
       Pattern("/user activity/i", TRUE, Lit("user activity")),
       Pattern("/what (has|did) (\\w+) (do|done)/i", TRUE, Cat(<<Lit("what "), Cap(1, <<Lit("has"), Lit("did")>>), Lit(" "), Cap(2, <<Rep("\\w", 1, 0)>>), Lit(" "), Cap(3, <<Lit("do"), Lit("done")>>)>>)),
       Pattern("/show me what (\\w+) (did|has done)/i", TRUE, Cat(<<Lit("show me what "), Cap(1, <<Rep("\\w", 1, 0)>>), Lit(" "), Cap(2, <<Lit("did"), Lit("has done")>>)>>)),
       Pattern("/(\\w+)'s activity/i", TRUE, Cat(<<Cap(1, <<Rep("\\w", 1, 0)>>), Lit("'s activity")>>)),
       Pattern("/user actions/i", TRUE, Lit("user actions")),
       Pattern("/who (has been active|did what)/i", TRUE, Cat(<<Lit("who "), Cap(1, <<Lit("has been active"), Lit("did what")>>)>>)),
       Pattern("/activity by (\\w+)/i", TRUE, Cat(<<Lit("activity by "), Cap(1, <<Rep("\\w", 1, 0)>>)>>)),
       Pattern("/user behavior/i", TRUE, Lit("user behavior")),
       Pattern("/actions (by|from) (\\w+)/i", TRUE, Cat(<<Lit("actions "), Cap(1, <<Lit("by"), Lit("from")>>), Lit(" "), Cap(2, <<Rep("\\w", 1, 0)>>)>>))>>],
    [intent |-> "suspicious_activity_query", patterns |-> <<
       Pattern("/suspicious activity/i", TRUE, Lit("suspicious activity")),
       Pattern("/unusual (behavior|activity)/i", TRUE, Cat(<<Lit("unusual "), Cap(1, <<Lit("behavior"), Lit("activity")>>)>>)),
       Pattern("/detect anomalies/i", TRUE, Lit("detect anomalies")),
       Pattern("/any suspicious/i", TRUE, Lit("any suspicious")),
       Pattern("/strange patterns/i", TRUE, Lit("strange patterns")),
       Pattern("/security anomalies/i", TRUE, Lit("security anomalies")),
       Pattern("/after hours activity/i", TRUE, Lit("after hours activity")),
       Pattern("/unexpected changes/i", TRUE, Lit("unexpected changes")),
       Pattern("/potential security (issues|breaches)/i", TRUE, Cat(<<Lit("potential security "), Cap(1, <<Lit("issues"), Lit("breaches")>>)>>)),
       Pattern("/anomalous behavior/i", TRUE, Lit("anomalous behavior"))>>],
    [intent |-> "time_based_query", patterns |-> <<
       Pattern("/what happened (last night|yesterday|over the weekend)/i", TRUE, Cat(<<Lit("what happened "), Cap(1, <<Lit("last night"), Lit("yesterday"), Lit("over the weekend")>>)>>)),
       Pattern("/show me (activity|events|logs) (from|during|in) (.*)/i", TRUE, Cat(<<Lit("show me "), Cap(1, <<Lit("activity"), Lit("events"), Lit("logs")>>), Lit(" "), Cap(2, <<Lit("from"), Lit("during"), Lit("in")>>), Lit(" "), Cap(3, <<Rep(".", 0, 0)>>)>>)),
       Pattern("/(last night|weekend|after hours) activity/i", TRUE, Cat(<<Cap(1, <<Lit("last night"), Lit("weekend"), Lit("after hours")>>), Lit(" activity")>>)),
       Pattern("/activity (between|from|during)/i", TRUE, Cat(<<Lit("activity "), Cap(1, <<Lit("between"), Lit("from"), Lit("during")>>)>>)),
       Pattern("/logs from (.*)/i", TRUE, Cat(<<Lit("logs from "), Cap(1, <<Rep(".", 0, 0)>>)>>)),
       Pattern("/events in the last (.*)/i", TRUE, Cat(<<Lit("events in the last "), Cap(1, <<Rep(".", 0, 0)>>)>>)),
       Pattern("/(morning|afternoon|evening|night) activity/i", TRUE, Cat(<<Cap(1, <<Lit("morning"), Lit("afternoon"), Lit("evening"), Lit("night")>>), Lit(" activity")>>))>>],
    [intent |-> "help_request", patterns |-> <<
       Pattern("/help/i", TRUE, Lit("help")),
       Pattern("/what can you (do|tell me)/i", TRUE, Cat(<<Lit("what can you "), Cap(1, <<Lit("do"), Lit("tell me")>>)>>)),
       Pattern("/how (do|can) I use/i", TRUE, Cat(<<Lit("how "), Cap(1, <<Lit("do"), Lit("can")>>), Lit(" I use")>>)),
       Pattern("/what (questions|commands)/i", TRUE, Cat(<<Lit("what "), Cap(1, <<Lit("questions"), Lit("commands")>>)>>)),
       Pattern("/available commands/i", TRUE, Lit("available commands")),
       Pattern("/show options/i", TRUE, Lit("show options")),
       Pattern("/commands/i", TRUE, Lit("commands")),
       Pattern("/capabilities/i", TRUE, Lit("capabilities")),
       Pattern("/examples/i", TRUE, Lit("examples")),
       Pattern("/how does this work/i", TRUE, Lit("how does this work"))>>]>>

\* intentKeywords of the same file.
IntentKeywords5 ==
  <<[intent |-> "security_events_query", keywords |-> <<
       "security", "policy", "policies", "event", "events", "incident",
       "incidents", "issue", "issues", "changes", "integration", "webhook">>],
    [intent |-> "user_activity_query", keywords |-> <<
       "user", "activity", "actions", "behavior", "did", "done", "doing",
       "who", "perform", "performed">>],
    [intent |-> "suspicious_activity_query", keywords |-> <<
       "suspicious", "unusual", "anomaly", "anomalies", "strange",
       "unexpected", "weird", "odd", "abnormal", "detection", "after hours">>],
    [intent |-> "time_based_query", keywords |-> <<
       "when", "time", "yesterday", "today", "last night", "weekend",
       "morning", "afternoon", "evening", "night", "hour", "day", "week",
       "month">>],
    [intent |-> "help_request", keywords |-> <<
       "help", "assist", "how", "what", "guide", "explain", "show me",
       "instructions", "commands", "options">>]>>

\* intentPatterns of the recognizer revision with event_by_user_query: six intents.
IntentPatterns6 ==
  <<[intent |-> "event_by_user_query", patterns |-> <<
       Pattern("/who (modified|changed|updated|created|deleted|added|removed)/i", TRUE, Cat(<<Lit("who "), Cap(1, <<Lit("modified"), Lit("changed"), Lit("updated"), Lit("created"), Lit("deleted"), Lit("added"), Lit("removed")>>)>>)),
       Pattern("/show me users who/i", TRUE, Lit("show me users who")),
       Pattern("/which users/i", TRUE, Lit("which users")),
       Pattern("/list users that/i", TRUE, Lit("list users that"))>>],
    [intent |-> "security_events_query", patterns |-> <<
       Pattern("/security (events|incidents)/i", TRUE, Cat(<<Lit("security "), Cap(1, <<Lit("events"), Lit("incidents")>>)>>)),
       Pattern("/recent (\\w+ )?security/i", TRUE, Cat(<<Lit("recent "), Opt(Cap(1, <<Cat(<<Rep("\\w", 1, 0), Lit(" ")>>)>>)), Lit("security")>>)),
       Pattern("/show me security/i", TRUE, Lit("show me security")),
       Pattern("/(any|recent) (security )?(issues|events|incidents)/i", TRUE, Cat(<<Cap(1, <<Lit("any"), Lit("recent")>>), Lit(" "), Opt(Cap(2, <<Lit("security ")>>)), Cap(3, <<Lit("issues"), Lit("events"), Lit("incidents")>>)>>)),
       Pattern("/security (concerns|problems)/i", TRUE, Cat(<<Lit("security "), Cap(1, <<Lit("concerns"), Lit("problems")>>)>>)),
       Pattern("/policy changes/i", TRUE, Lit("policy changes")),
       Pattern("/integration (changes|updates)/i", TRUE, Cat(<<Lit("integration "), Cap(1, <<Lit("changes"), Lit("updates")>>)>>)),
       Pattern("/webhook (changes|updates)/i", TRUE, Cat(<<Lit("webhook "), Cap(1, <<Lit("changes"), Lit("updates")>>)>>)),
       Pattern("/service account changes/i", TRUE, Lit("service account changes")),
       Pattern("/project changes/i", TRUE, Lit("project changes")),
       Pattern("/sast settings changes/i", TRUE, Lit("sast settings changes"))>>],
    [intent |-> "user_activity_query", patterns |-> <<
       Pattern("/^user activity$/i", TRUE, Cat(<<Bol, Lit("user activity"), Eol>>)),
       Pattern("/all user activity/i", TRUE, Lit("all user activity")),
       Pattern("/show me user activity/i", TRUE, Lit("show me user activity")),
       Pattern("/list user activity/i", TRUE, Lit("list user activity")),
       Pattern("/user actions/i", TRUE, Lit("user actions")),
       Pattern("/user behavior/i", TRUE, Lit("user behavior")),
       Pattern("/who (has been active|did what)/i", TRUE, Cat(<<Lit("who "), Cap(1, <<Lit("has been active"), Lit("did what")>>)>>)),
       Pattern("/active users/i", TRUE, Lit("active users")),
       Pattern("/most active users/i", TRUE, Lit("most active users")),
       Pattern("/show me (a list of )?users/i", TRUE, Cat(<<Lit("show me "), Opt(Cap(1, <<Lit("a list of ")>>)), Lit("users")>>)),
       Pattern("/list (all )?users/i", TRUE, Cat(<<Lit("list "), Opt(Cap(1, <<Lit("all ")>>)), Lit("users")>>)),
       Pattern("/get users/i", TRUE, Lit("get users")),
       Pattern("/user list/i", TRUE, Lit("user list")),
       Pattern("/what (has|did) (\\w+) (do|done)/i", TRUE, Cat(<<Lit("what "), Cap(1, <<Lit("has"), Lit("did")>>), Lit(" "), Cap(2, <<Rep("\\w", 1, 0)>>), Lit(" "), Cap(3, <<Lit("do"), Lit("done")>>)>>)),
       Pattern("/show me what (\\w+) (did|has done)/i", TRUE, Cat(<<Lit("show me what "), Cap(1, <<Rep("\\w", 1, 0)>>), Lit(" "), Cap(2, <<Lit("did"), Lit("has done")>>)>>)),
       Pattern("/(\\w+)'s activity/i", TRUE, Cat(<<Cap(1, <<Rep("\\w", 1, 0)>>), Lit("'s activity")>>)),
       Pattern("/activity by (\\w+)/i", TRUE, Cat(<<Lit("activity by "), Cap(1, <<Rep("\\w", 1, 0)>>)>>)),
       Pattern("/actions (by|from) (\\w+)/i", TRUE, Cat(<<Lit("actions "), Cap(1, <<Lit("by"), Lit("from")>>), Lit(" "), Cap(2, <<Rep("\\w", 1, 0)>>)>>))>>],
    [intent |-> "suspicious_activity_query", patterns |-> <<
       Pattern("/suspicious activity/i", TRUE, Lit("suspicious activity")),
       Pattern("/unusual (behavior|activity)/i", TRUE, Cat(<<Lit("unusual "), Cap(1, <<Lit("behavior"), Lit("activity")>>)>>)),
       Pattern("/detect anomalies/i", TRUE, Lit("detect anomalies")),
       Pattern("/any suspicious/i", TRUE, Lit("any suspicious")),
       Pattern("/strange patterns/i", TRUE, Lit("strange patterns")),
       Pattern("/security anomalies/i", TRUE, Lit("security anomalies")),
       Pattern("/after hours activity/i", TRUE, Lit("after hours activity")),
       Pattern("/unexpected changes/i", TRUE, Lit("unexpected changes")),
       Pattern("/potential security (issues|breaches)/i", TRUE, Cat(<<Lit("potential security "), Cap(1, <<Lit("issues"), Lit("breaches")>>)>>)),
       Pattern("/anomalous behavior/i", TRUE, Lit("anomalous behavior"))>>],
    [intent |-> "time_based_query", patterns |-> <<
       Pattern("/what happened (last night|yesterday|over the weekend)/i", TRUE, Cat(<<Lit("what happened "), Cap(1, <<Lit("last night"), Lit("yesterday"), Lit("over the weekend")>>)>>)),
       Pattern("/show me (activity|events|logs) (from|during|in) (.*)/i", TRUE, Cat(<<Lit("show me "), Cap(1, <<Lit("activity"), Lit("events"), Lit("logs")>>), Lit(" "), Cap(2, <<Lit("from"), Lit("during"), Lit("in")>>), Lit(" "), Cap(3, <<Rep(".", 0, 0)>>)>>)),
       Pattern("/(last night|weekend|after hours) activity/i", TRUE, Cat(<<Cap(1, <<Lit("last night"), Lit("weekend"), Lit("after hours")>>), Lit(" activity")>>)),
       Pattern("/activity (between|from|during)/i", TRUE, Cat(<<Lit("activity "), Cap(1, <<Lit("between"), Lit("from"), Lit("during")>>)>>)),
       Pattern("/logs from (.*)/i", TRUE, Cat(<<Lit("logs from "), Cap(1, <<Rep(".", 0, 0)>>)>>)),
       Pattern("/events in the last (.*)/i", TRUE, Cat(<<Lit("events in the last "), Cap(1, <<Rep(".", 0, 0)>>)>>)),
       Pattern("/(morning|afternoon|evening|night) activity/i", TRUE, Cat(<<Cap(1, <<Lit("morning"), Lit("afternoon"), Lit("evening"), Lit("night")>>), Lit(" activity")>>))>>],
    [intent |-> "help_request", patterns |-> <<
       Pattern("/help/i", TRUE, Lit("help")),
       Pattern("/what can you (do|tell me)/i", TRUE, Cat(<<Lit("what can you "), Cap(1, <<Lit("do"), Lit("tell me")>>)>>)),
       Pattern("/how (do|can) I use/i", TRUE, Cat(<<Lit("how "), Cap(1, <<Lit("do"), Lit("can")>>), Lit(" I use")>>)),
       Pattern("/what (questions|commands)/i", TRUE, Cat(<<Lit("what "), Cap(1, <<Lit("questions"), Lit("commands")>>)>>)),
       Pattern("/available commands/i", TRUE, Lit("available commands")),
       Pattern("/show options/i", TRUE, Lit("show options")),
       Pattern("/commands/i", TRUE, Lit("commands")),
       Pattern("/capabilities/i", TRUE, Lit("capabilities")),
       Pattern("/examples/i", TRUE, Lit("examples")),
       Pattern("/how does this work/i", TRUE, Lit("how does this work"))>>]>>

\* intentKeywords of that revision.
IntentKeywords6 ==
  <<[intent |-> "event_by_user_query", keywords |-> <<
       "who", "users", "which user", "list users">>],
    [intent |-> "security_events_query", keywords |-> <<
       "security", "policy", "event", "incident", "issue", "changes",
       "integration", "webhook", "service account", "project", "sast">>],
    [intent |-> "user_activity_query", keywords |-> <<
       "user", "activity", "actions", "behavior", "did", "done", "doing",
       "perform", "active", "users", "all users", "most active",
       "list users", "user list", "show users">>],
    [intent |-> "suspicious_activity_query", keywords |-> <<
       "suspicious", "unusual", "anomaly", "strange", "unexpected",
       "abnormal", "after hours">>],
    [intent |-> "time_based_query", keywords |-> <<
       "when", "time", "yesterday", "today", "last night", "weekend",
       "morning", "afternoon", "evening", "night", "hour", "day", "week",
       "month">>],
    [intent |-> "help_request", keywords |-> <<
       "help", "assist", "how", "what", "guide", "explain", "show me",
       "instructions", "commands", "options">>]>>

\* The two revisions of the recognizer the repository holds.
FiveIntents == "src/nlp/intentRecognizer.js"
SixIntents == "intentRecognizer.js with event_by_user_query"
Revisions == {FiveIntents, SixIntents}
IntentPatterns(revision) == IF revision = FiveIntents THEN IntentPatterns5 ELSE IntentPatterns6
IntentKeywords(revision) == IF revision = FiveIntents THEN IntentKeywords5 ELSE IntentKeywords6

\* Object.entries(this.intentPatterns) walked by the two nested loops: every
\* pattern with its intent, in declaration order.
PatternsInOrder(table) ==
  FlattenSeq([k \in 1..Len(table) |->
    [p \in 1..Len(table[k].patterns) |->
       [intent |-> table[k].intent, pattern |-> table[k].patterns[p]]]])

\* A message handed to the recognizer: a string, or a value of another type.
StringValue(text) == [type |-> "string", text |-> text]
NonStringValues == {[type |-> t, text |-> Absent] : t \in {"undefined", "null", "number", "object"}}

\* String.prototype.trim
RECURSIVE TrimStart(_)
TrimStart(s) == IF s # <<>> /\ Head(s) \in WhiteSpace THEN TrimStart(Tail(s)) ELSE s
RECURSIVE TrimEnd(_)
TrimEnd(s) ==
  IF s # <<>> /\ s[Len(s)] \in WhiteSpace THEN TrimEnd(SubSeq(s, 1, Len(s) - 1)) ELSE s
Trim(s) == TrimEnd(TrimStart(s))

\* !message || typeof message !== 'string'
IsEmptyOrInvalid(message) == message.text = Absent \/ message.type # "string"

\* (patternStr.match(/\([^?]/g) || []).length: the matches do not overlap
RECURSIVE GroupCountFrom(_, _)
GroupCountFrom(s, i) ==
  IF i >= Len(s) THEN 0
  ELSE IF s[i] = "(" /\ s[i + 1] # "?" THEN 1 + GroupCountFrom(s, i + 2)
  ELSE GroupCountFrom(s, i + 1)
\* (patternStr.match(/\?/g) || []).length
OptionalCount(s) == Cardinality({i \in 1..Len(s) : s[i] = "?"})

BaseConfidence == 850
GroupBonus == 30
OptionalPenalty == 20
ExactPhraseBoost == 100
ConfidenceCap == 990
CalculateConfidence(message, pattern) ==
  LET patternStr == Chars(pattern.source)
      confidence == BaseConfidence + GroupCountFrom(patternStr, 1) * GroupBonus
                    - OptionalCount(patternStr) * OptionalPenalty
                    + (IF Includes(patternStr, message) THEN ExactPhraseBoost ELSE 0)
  IN IF confidence < ConfidenceCap THEN confidence ELSE ConfidenceCap

\* new RegExp(`\\b${keyword}\\b|${keyword}`, 'i').test(message): the second
\* alternative is the keyword anywhere in the message.
KeywordTest(keyword, message) == Includes(ToLowerCase(message), ToLowerCase(Chars(keyword)))

\* message.split(/\s+/).length
WordCount(message) ==
  1 + Cardinality({i \in 1..Len(message) :
                     message[i] \in WhiteSpace /\ (i = 1 \/ message[i - 1] \notin WhiteSpace)})

KeywordScore == 200
PhraseBonus == 100
CoverageCap == 300
CoverageFactor == 500
ScoreCap == 950
\* The score of one intent's keywords and the number of keywords found.
KeywordMatches(keywords, message) ==
  {k \in 1..Len(keywords) : KeywordTest(keywords[k], message)}
IntentScore(keywords, message) ==
  LET found == KeywordMatches(keywords, message)
      matchCount == Cardinality(found)
      phrases == Cardinality({k \in found : Includes(Chars(keywords[k]), <<" ">>)})
      coverage == (matchCount * CoverageFactor) \div WordCount(message)
      coverageBonus == IF coverage < CoverageCap THEN coverage ELSE CoverageCap
      score == matchCount * KeywordScore + phrases * PhraseBonus + coverageBonus
  IN IF score < ScoreCap THEN score ELSE ScoreCap

\* _scoreIntentsByKeywords: the intents with at least one keyword found, in
\* declaration order.
ScoreIntentsByKeywords(message, table) ==
  LET hit == SelectIdx(Len(table),
               {k \in 1..Len(table) : KeywordMatches(table[k].keywords, message) # {}})
  IN [n \in 1..Len(hit) |->
        [intent |-> table[hit[n]].intent,
         score |-> IntentScore(table[hit[n]].keywords, message)]]

\* The first scored intent, the list left unsorted.
TopScored_unsorted(scores) == scores[1]

\* scoredIntents.sort((a, b) => b.score - a.score)[0]: the sort is stable, so
\* the first of the highest scored.
TopScored(scores) ==
  scores[CHOOSE i \in 1..Len(scores) :
           \A j \in 1..Len(scores) :
              scores[j].score < scores[i].score \/ (scores[j].score = scores[i].score /\ i <= j)]

LowThreshold == 300
FullConfidence == 1000
HelpRequest == "help_request"
InvalidMessageResult ==
  [intent |-> HelpRequest, confidence |-> FullConfidence,
   message |-> StringValue(Chars("Empty or invalid message"))]
\* The default answer carries no confidence.
DefaultResult_noConfidence(message) ==
  [intent |-> HelpRequest, confidence |-> 0, message |-> message]
\* return { intent: 'help_request', confidence: 1.0, message }
DefaultResult(message) ==
  [intent |-> HelpRequest, confidence |-> FullConfidence, message |-> message]

\* The first pattern, in declaration order, that the normalized message
\* matches; 0 when none does.
FirstMatching(entries, normalizedMessage) ==
  LET hits == {n \in 1..Len(entries) : RegexTest(entries[n].pattern, normalizedMessage)}
  IN IF hits = {} THEN 0 ELSE CHOOSE n \in hits : \A m \in hits : n <= m

RecognizeIntentResult(message, revision) ==
  IF IsEmptyOrInvalid(message) THEN InvalidMessageResult
  ELSE LET normalizedMessage == ToLowerCase(Trim(message.text))
           entries == PatternsInOrder(IntentPatterns(revision))
           first == FirstMatching(entries, normalizedMessage)
           scoredIntents == ScoreIntentsByKeywords(normalizedMessage, IntentKeywords(revision))
       IN IF first # 0
          THEN [intent |-> entries[first].intent,
                confidence |-> CalculateConfidence(normalizedMessage, entries[first].pattern),
                message |-> message]
          ELSE IF scoredIntents # <<>> /\ TopScored(scoredIntents).score >= LowThreshold
          THEN [intent |-> TopScored(scoredIntents).intent,
                confidence |-> TopScored(scoredIntents).score,
                message |-> message]
          ELSE DefaultResult(message)

\* ---- the messages explored
\* A phrasing of every pattern of both tables.
PatternPhrasings ==
  {"security events", "security incidents", "recent security",
   "recent john security", "show me security", "any issues",
   "recent security incidents", "security concerns",
   "security problems", "policy changes", "integration changes",
   "integration updates", "webhook changes", "webhook updates",
   "service account changes", "user activity", "what has john do",
   "what did john done", "show me what john did",
   "show me what john has done", "john's activity", "user actions",
   "who has been active", "who did what", "activity by john",
   "user behavior", "actions by john", "actions from john",
   "suspicious activity", "unusual behavior", "unusual activity",
   "detect anomalies", "any suspicious", "strange patterns",
   "security anomalies", "after hours activity", "unexpected changes",
   "potential security issues", "potential security breaches",
   "anomalous behavior", "what happened last night",
   "what happened over the weekend", "show me activity from x",
   "show me logs in x", "last night activity", "activity between",
   "activity during", "logs from x", "events in the last x",
   "morning activity", "night activity", "help", "what can you do",
   "what can you tell me", "how do I use", "how can I use",
   "what questions", "what commands", "available commands",
   "show options", "commands", "capabilities", "examples",
   "how does this work", "who modified", "who removed",
   "show me users who", "which users", "list users that",
   "project changes", "sast settings changes", "all user activity",
   "show me user activity", "list user activity", "active users",
   "most active users", "show me users", "show me a list of users",
   "list users", "list all users", "get users", "user list"}
\* Empty and whitespace-only messages.
BlankMessages == {"", " ", "   ", "\t", " \t "}
\* Messages with keywords only, with none, padded or in capitals, and ones
\* that match patterns of two intents, ones whose only keyword is lost among
\* many words, and one with more keywords than the score cap admits.
OtherMessages ==
  {"policy", "weekend", "odd", "xyzzy", "tell me a joke", "the user did it",
   "  Help  ", "SHOW ME RECENT SECURITY EVENTS", "help with suspicious activity",
   "any suspicious user activity", "security events last night activity",
   "what commands show me users",
   "one two three four five incident", "a b c d incident",
   "i would really like a strange pizza now",
   "strange unexpected abnormal anomaly incident"}
IntentMessages ==
  {StringValue(Chars(m)) : m \in PatternPhrasings \cup BlankMessages \cup OtherMessages}
    \cup NonStringValues

\* ---- one call of recognizeIntent
IntentIdle == ir = IdleRec

IntentInit ==
  \E revision \in Revisions, message \in IntentMessages :
     ir = [pc |-> "called", revision |-> revision, message |-> message]

RecognizeIntent ==
  /\ ir.pc = "called"
  /\ ir' = [pc |-> "recognized", revision |-> ir.revision, message |-> ir.message,
            result |-> RecognizeIntentResult(ir.message, ir.revision)]
  /\ UNCHANGED nonIntentVars

NextIntent == RecognizeIntent

(***************************************************************************)
(* Entity extractor: EntityExtractor.extractEntities                       *)
(***************************************************************************)
\* entityPatterns, in declaration order.
EntityPatterns ==
  <<[entityType |-> "user_id", patterns |-> <<
       Pattern("/@([\\w.-]+)/", FALSE, Cat(<<Lit("@"), Cap(1, <<Rep("[\\w.-]", 1, 0)>>)>>)),
       Pattern("/user ([\\w.-]+)/i", TRUE, Cat(<<Lit("user "), Cap(1, <<Rep("[\\w.-]", 1, 0)>>)>>)),
       Pattern("/what (has|did) ([A-Z][a-z]+)/i", TRUE, Cat(<<Lit("what "), Cap(1, <<Lit("has"), Lit("did")>>), Lit(" "), Cap(2, <<Cat(<<Rep("[A-Z]", 1, 1), Rep("[a-z]", 1, 0)>>)>>)>>)),
       Pattern("/([A-Z][a-z]+)'s activity/i", TRUE, Cat(<<Cap(1, <<Cat(<<Rep("[A-Z]", 1, 1), Rep("[a-z]", 1, 0)>>)>>), Lit("'s activity")>>)),
       Pattern("/activity (by|for|of) ([A-Z][a-z]+)/i", TRUE, Cat(<<Lit("activity "), Cap(1, <<Lit("by"), Lit("for"), Lit("of")>>), Lit(" "), Cap(2, <<Cat(<<Rep("[A-Z]", 1, 1), Rep("[a-z]", 1, 0)>>)>>)>>)),
       Pattern("/activity (by|for|of) (?!activity)([A-Z][a-z]+)/i", TRUE, Cat(<<Lit("activity "), Cap(1, <<Lit("by"), Lit("for"), Lit("of")>>), Lit(" "), NotAhead(Lit("activity")), Cap(2, <<Cat(<<Rep("[A-Z]", 1, 1), Rep("[a-z]", 1, 0)>>)>>)>>)),
       Pattern("/actions (by|from) ([A-Z][a-z]+)/i", TRUE, Cat(<<Lit("actions "), Cap(1, <<Lit("by"), Lit("from")>>), Lit(" "), Cap(2, <<Cat(<<Rep("[A-Z]", 1, 1), Rep("[a-z]", 1, 0)>>)>>)>>)),
       Pattern("/what ([A-Z][a-z]+) (has|did|was)/i", TRUE, Cat(<<Lit("what "), Cap(1, <<Cat(<<Rep("[A-Z]", 1, 1), Rep("[a-z]", 1, 0)>>)>>), Lit(" "), Cap(2, <<Lit("has"), Lit("did"), Lit("was")>>)>>)),
       Pattern("/show ([A-Z][a-z]+)/i", TRUE, Cat(<<Lit("show "), Cap(1, <<Cat(<<Rep("[A-Z]", 1, 1), Rep("[a-z]", 1, 0)>>)>>)>>)),
       Pattern("/about ([A-Z][a-z]+)/i", TRUE, Cat(<<Lit("about "), Cap(1, <<Cat(<<Rep("[A-Z]", 1, 1), Rep("[a-z]", 1, 0)>>)>>)>>))>>],
    [entityType |-> "time_period", patterns |-> <<
       Pattern("/last (\\d+) (days|hours|weeks|months|years)/i", TRUE, Cat(<<Lit("last "), Cap(1, <<Rep("\\d", 1, 0)>>), Lit(" "), Cap(2, <<Lit("days"), Lit("hours"), Lit("weeks"), Lit("months"), Lit("years")>>)>>)),
       Pattern("/past (\\d+) (days|hours|weeks|months|years)/i", TRUE, Cat(<<Lit("past "), Cap(1, <<Rep("\\d", 1, 0)>>), Lit(" "), Cap(2, <<Lit("days"), Lit("hours"), Lit("weeks"), Lit("months"), Lit("years")>>)>>)),
       Pattern("/(\\d+) (days|hours|weeks|months|years) ago/i", TRUE, Cat(<<Cap(1, <<Rep("\\d", 1, 0)>>), Lit(" "), Cap(2, <<Lit("days"), Lit("hours"), Lit("weeks"), Lit("months"), Lit("years")>>), Lit(" ago")>>)),
       Pattern("/last (day|week|month|year|hour)/i", TRUE, Cat(<<Lit("last "), Cap(1, <<Lit("day"), Lit("week"), Lit("month"), Lit("year"), Lit("hour")>>)>>)),
       Pattern("/yesterday/i", TRUE, Lit("yesterday")),
       Pattern("/today/i", TRUE, Lit("today")),
       Pattern("/this (week|month|year)/i", TRUE, Cat(<<Lit("this "), Cap(1, <<Lit("week"), Lit("month"), Lit("year")>>)>>)),
       Pattern("/recent(ly)?/i", TRUE, Cat(<<Lit("recent"), Opt(Cap(1, <<Lit("ly")>>))>>)),
       Pattern("/since (yesterday|last week|last month)/i", TRUE, Cat(<<Lit("since "), Cap(1, <<Lit("yesterday"), Lit("last week"), Lit("last month")>>)>>))>>],
    [entityType |-> "time_range", patterns |-> <<
       Pattern("/last night/i", TRUE, Lit("last night")),
       Pattern("/overnight/i", TRUE, Lit("overnight")),
       Pattern("/weekend/i", TRUE, Lit("weekend")),
       Pattern("/after hours/i", TRUE, Lit("after hours")),
       Pattern("/between (.*) and (.*)/i", TRUE, Cat(<<Lit("between "), Cap(1, <<Rep(".", 0, 0)>>), Lit(" and "), Cap(2, <<Rep(".", 0, 0)>>)>>)),
       Pattern("/from (.*) to (.*)/i", TRUE, Cat(<<Lit("from "), Cap(1, <<Rep(".", 0, 0)>>), Lit(" to "), Cap(2, <<Rep(".", 0, 0)>>)>>)),
       Pattern("/during (morning|afternoon|evening|night)/i", TRUE, Cat(<<Lit("during "), Cap(1, <<Lit("morning"), Lit("afternoon"), Lit("evening"), Lit("night")>>)>>)),
       Pattern("/during (.*)/i", TRUE, Cat(<<Lit("during "), Cap(1, <<Rep(".", 0, 0)>>)>>))>>],
    [entityType |-> "event_type", patterns |-> <<
       Pattern("/policy changes/i", TRUE, Lit("policy changes")),
       Pattern("/integration changes/i", TRUE, Lit("integration changes")),
       Pattern("/webhook changes/i", TRUE, Lit("webhook changes")),
       Pattern("/service account changes/i", TRUE, Lit("service account changes")),
       Pattern("/project changes/i", TRUE, Lit("project changes")),
       Pattern("/user changes/i", TRUE, Lit("user changes")),
       Pattern("/role changes/i", TRUE, Lit("role changes")),
       Pattern("/sast settings changes/i", TRUE, Lit("sast settings changes")),
       Pattern("/target changes/i", TRUE, Lit("target changes")),
       Pattern("/app changes/i", TRUE, Lit("app changes")),
       Pattern("/collection changes/i", TRUE, Lit("collection changes")),
       Pattern("/(modified|changed|updated|created|deleted|added|removed) (integrations|policies|webhooks|users|roles|projects|service accounts|sast settings|targets|apps|collections)/i", TRUE, Cat(<<Cap(1, <<Lit("modified"), Lit("changed"), Lit("updated"), Lit("created"), Lit("deleted"), Lit("added"), Lit("removed")>>), Lit(" "), Cap(2, <<Lit("integrations"), Lit("policies"), Lit("webhooks"), Lit("users"), Lit("roles"), Lit("projects"), Lit("service accounts"), Lit("sast settings"), Lit("targets"), Lit("apps"), Lit("collections")>>)>>))>>],
    [entityType |-> "count_limit", patterns |-> <<
       Pattern("/top (\\d+)/i", TRUE, Cat(<<Lit("top "), Cap(1, <<Rep("\\d", 1, 0)>>)>>)),
       Pattern("/first (\\d+)/i", TRUE, Cat(<<Lit("first "), Cap(1, <<Rep("\\d", 1, 0)>>)>>)),
       Pattern("/last (\\d+)/i", TRUE, Cat(<<Lit("last "), Cap(1, <<Rep("\\d", 1, 0)>>)>>)),
       Pattern("/(\\d+) most/i", TRUE, Cat(<<Cap(1, <<Rep("\\d", 1, 0)>>), Lit(" most")>>)),
       Pattern("/limit (\\d+)/i", TRUE, Cat(<<Lit("limit "), Cap(1, <<Rep("\\d", 1, 0)>>)>>)),
       Pattern("/(\\d+) results/i", TRUE, Cat(<<Cap(1, <<Rep("\\d", 1, 0)>>), Lit(" results")>>))>>]>>

\* datePatterns of _extractTimeEntity
DatePatterns ==
  <<[regex |-> Pattern("/since (last|this) (monday|tuesday|wednesday|thursday|friday|saturday|sunday)/i", TRUE, Cat(<<Lit("since "), Cap(1, <<Lit("last"), Lit("this")>>), Lit(" "), Cap(2, <<Lit("monday"), Lit("tuesday"), Lit("wednesday"), Lit("thursday"), Lit("friday"), Lit("saturday"), Lit("sunday")>>)>>)),
     type |-> "time_period"],
    [regex |-> Pattern("/(january|february|march|april|may|june|july|august|september|october|november|december) (\\d{1,2})(st|nd|rd|th)?/i", TRUE, Cat(<<Cap(1, <<Lit("january"), Lit("february"), Lit("march"), Lit("april"), Lit("may"), Lit("june"), Lit("july"), Lit("august"), Lit("september"), Lit("october"), Lit("november"), Lit("december")>>), Lit(" "), Cap(2, <<Rep("\\d", 1, 2)>>), Opt(Cap(3, <<Lit("st"), Lit("nd"), Lit("rd"), Lit("th")>>))>>)),
     type |-> "time_range"],
    [regex |-> Pattern("/(\\d{1,2})(st|nd|rd|th)? of (january|february|march|april|may|june|july|august|september|october|november|december)/i", TRUE, Cat(<<Cap(1, <<Rep("\\d", 1, 2)>>), Opt(Cap(2, <<Lit("st"), Lit("nd"), Lit("rd"), Lit("th")>>)), Lit(" of "), Cap(3, <<Lit("january"), Lit("february"), Lit("march"), Lit("april"), Lit("may"), Lit("june"), Lit("july"), Lit("august"), Lit("september"), Lit("october"), Lit("november"), Lit("december")>>)>>)),
     type |-> "time_range"],
    [regex |-> Pattern("/from .* until .*/i", TRUE, Cat(<<Lit("from "), Rep(".", 0, 0), Lit(" until "), Rep(".", 0, 0)>>)),
     type |-> "time_range"],
    [regex |-> Pattern("/last quarter/i", TRUE, Lit("last quarter")),
     type |-> "time_period"],
    [regex |-> Pattern("/Q[1-4]/i", TRUE, Cat(<<Lit("Q"), Rep("[1-4]", 1, 1)>>)),
     type |-> "time_range"],
    [regex |-> Pattern("/first half of (the )?(day|week|month|year)/i", TRUE, Cat(<<Lit("first half of "), Opt(Cap(1, <<Lit("the ")>>)), Cap(2, <<Lit("day"), Lit("week"), Lit("month"), Lit("year")>>)>>)),
     type |-> "time_range"],
    [regex |-> Pattern("/second half of (the )?(day|week|month|year)/i", TRUE, Cat(<<Lit("second half of "), Opt(Cap(1, <<Lit("the ")>>)), Cap(2, <<Lit("day"), Lit("week"), Lit("month"), Lit("year")>>)>>)),
     type |-> "time_range"]>>

\* match.length - 1: the number of capturing groups of a pattern
RECURSIVE GroupsOf(_)
RECURSIVE GroupsOfAll(_)
GroupsOf(r) ==
  CASE r.t = "cap" -> IF r.k > GroupsOfAll(r.alts) THEN r.k ELSE GroupsOfAll(r.alts)
    [] r.t = "cat" -> GroupsOfAll(r.rs)
    [] r.t \in {"opt", "nla"} -> GroupsOf(r.r)
    [] OTHER -> 0
GroupsOfAll(rs) ==
  IF rs = <<>> THEN 0
  ELSE IF GroupsOf(Head(rs)) > GroupsOfAll(Tail(rs)) THEN GroupsOf(Head(rs))
  ELSE GroupsOfAll(Tail(rs))

\* match[k]: a group that took no part, or holds nothing, is falsy
Group(match, k) == IF match.groups[k] = NoCapture THEN Absent ELSE match.groups[k]

\* parseInt(str, 10) of text that begins with digits; isNaN of it otherwise
RECURSIVE ParseInt(_)
DigitValue(c) == CHOOSE n \in 0..9 : SubSeq("0123456789", n + 1, n + 1) = c
LeadingDigits(str) == SubSeq(str, 1, RunLength(str, 1, "\\d", FALSE, Len(str)))
ParseInt(digits) ==
  IF digits = <<>> THEN 0
  ELSE 10 * ParseInt(SubSeq(digits, 1, Len(digits) - 1)) + DigitValue(digits[Len(digits)])
IsNaNParseInt(str) == LeadingDigits(str) = <<>>

\* str.split(' ')[1]: the text between the first and the second blank
SecondWord(str) ==
  LET blanks == {i \in 1..Len(str) : str[i] = " "}
      first == IF blanks = {} THEN 0 ELSE CHOOSE i \in blanks : \A j \in blanks : i <= j
      later == {i \in blanks : i > first}
      second == IF later = {} THEN Len(str) + 1 ELSE CHOOSE i \in later : \A j \in later : i <= j
  IN IF first = 0 THEN Absent ELSE SubSeq(str, first + 1, second - 1)

\* str.replace(sub, ''): the first occurrence removed
RemoveFirst(str, sub) ==
  LET at == {i \in 1..(Len(str) - Len(sub) + 1) : SubSeq(str, i, i + Len(sub) - 1) = sub}
  IN IF at = {} THEN str
     ELSE LET i == CHOOSE i \in at : \A j \in at : i <= j
          IN SubSeq(str, 1, i - 1) \o SubSeq(str, i + Len(sub), Len(str))
\* str.replace(/s$/, '')
DropFinalS(str) ==
  IF str # <<>> /\ str[Len(str)] = "s" THEN SubSeq(str, 1, Len(str) - 1) ELSE str

ProcessTimePeriod(match) ==
  LET whole == ToLowerCase(match.whole)
  IN IF Group(match, 1) # Absent /\ ~IsNaNParseInt(Group(match, 1))
     THEN Group(match, 1) \o <<" ">> \o OrElse(Group(match, 2), Chars("days"))
     ELSE IF Includes(whole, Chars("last"))
     THEN Chars("last ") \o OrElse(Group(match, 1), OrElse(SecondWord(match.whole), Chars("day")))
     ELSE IF Includes(whole, Chars("yesterday")) THEN Chars("yesterday")
     ELSE IF Includes(whole, Chars("today")) THEN Chars("today")
     ELSE IF Includes(whole, Chars("this"))
     THEN Chars("this ") \o OrElse(SecondWord(match.whole), Chars("day"))
     ELSE IF Includes(whole, Chars("recent")) THEN Chars("recent")
     ELSE match.whole

\* An entity value: text, or the number of count_limit.
TextValue(text) == [kind |-> "string", text |-> text]
NumberValue(n) == [kind |-> "number", n |-> n]
Null == [kind |-> "null"]

\* The switch of _extractEntityWithPatterns on a match
EntityOfMatch(match, pattern, entityType) ==
  CASE entityType = "user_id" ->
         IF GroupsOf(pattern.re) = 0 THEN TextValue(match.whole)
         ELSE TextValue(match.groups[GroupsOf(pattern.re)])
    [] entityType = "time_period" -> TextValue(ProcessTimePeriod(match))
    [] entityType = "time_range" -> TextValue(match.whole)
    [] entityType = "event_type" ->
         IF GroupsOf(pattern.re) >= 2 /\ Group(match, 2) # Absent
         THEN TextValue(DropFinalS(Group(match, 2)) \o <<" ">> \o Group(match, 1))
         ELSE TextValue(Trim(RemoveFirst(ToLowerCase(match.whole), Chars("changes"))))
    [] entityType = "count_limit" ->
         IF IsNaNParseInt(Group(match, 1)) THEN Null
         ELSE NumberValue(ParseInt(LeadingDigits(Group(match, 1))))

\* _extractEntityWithPatterns: the first pattern that matches decides
ExtractEntityWithPatterns(message, patterns, entityType) ==
  LET hits == {n \in 1..Len(patterns) : RegexTest(patterns[n], message)}
  IN IF hits = {} THEN Null
     ELSE LET n == CHOOSE n \in hits : \A m \in hits : n <= m
          IN EntityOfMatch(RegexMatch(patterns[n], message), patterns[n], entityType)

\* _extractTimeEntity
ExtractTimeEntity(message) ==
  LET hits == {n \in 1..Len(DatePatterns) : RegexTest(DatePatterns[n].regex, message)}
  IN IF hits = {} THEN Null
     ELSE LET n == CHOOSE n \in hits : \A m \in hits : n <= m
          IN [kind |-> "entity", type |-> DatePatterns[n].type,
              value |-> TextValue(RegexMatch(DatePatterns[n].regex, message).whole)]

\* !entities.x on a stored value
Falsy(value) ==
  \/ value.kind = "null"
  \/ value.kind = "string" /\ value.text = Absent
  \/ value.kind = "number" /\ value.n = 0

\* extractEntities: the entity map, holding the kinds that were extracted
ExtractEntitiesResult(message) ==
  IF IsEmptyOrInvalid(message) THEN <<>>
  ELSE LET extracted == [k \in 1..Len(EntityPatterns) |->
                           ExtractEntityWithPatterns(message.text, EntityPatterns[k].patterns,
                                                     EntityPatterns[k].entityType)]
           found == {k \in 1..Len(EntityPatterns) : extracted[k] # Null}
           entities == [t \in {EntityPatterns[k].entityType : k \in found} |->
                          extracted[CHOOSE k \in found : EntityPatterns[k].entityType = t]]
           has(t) == t \in DOMAIN entities /\ ~Falsy(entities[t])
           timeEntity == ExtractTimeEntity(message.text)
       IN IF ~has("time_period") /\ ~has("time_range") /\ timeEntity # Null
          THEN [t \in DOMAIN entities \cup {timeEntity.type} |->
                  IF t = timeEntity.type THEN timeEntity.value ELSE entities[t]]
          ELSE entities

\* ---- the messages explored: a phrasing of every entity pattern and date
\* pattern, and messages that hold several entities or none.
EntityPhrasings ==
  {"@john", "user john", "what has aa", "what did aa", "aa's activity",
   "activity by aa", "activity of aa", "actions by aa",
   "actions from aa", "what aa has", "what aa was", "show aa",
   "about aa", "last 3 days", "last 3 years", "past 3 days",
   "past 3 years", "3 days ago", "3 years ago", "last day", "last hour",
   "yesterday", "today", "this week", "this year", "recent", "recently",
   "since yesterday", "since last month", "last night", "overnight",
   "weekend", "after hours", "between x and x", "from x to x",
   "during morning", "during night", "during x", "policy changes",
   "integration changes", "webhook changes", "service account changes",
   "project changes", "user changes", "role changes",
   "sast settings changes", "target changes", "app changes",
   "collection changes", "modified integrations", "removed collections",
   "top 3", "first 3", "last 3", "3 most", "limit 3", "3 results",
   "since last monday", "since this sunday", "january 3",
   "december 3th", "3 of january", "3th of december", "from x until x",
   "last quarter", "Q2", "first half of day", "first half of the year",
   "second half of day", "second half of the year", "last 3 weeks",
   "past 2 hours", "show me the top 5 policy changes by user bob",
   "What did Cesar do last week", "activity by activity",
   "first half of the week", "removed service accounts 10 days ago",
   "hello there", "limit 20 results during the weekend"}
EntityMessages ==
  {StringValue(Chars(m)) : m \in EntityPhrasings \cup BlankMessages} \cup NonStringValues

\* ---- one call of extractEntities
EntityIdle == ee = IdleRec

EntityInit == \E message \in EntityMessages : ee = [pc |-> "called", message |-> message]

ExtractEntities ==
  /\ ee.pc = "called"
  /\ ee' = [pc |-> "extracted", message |-> ee.message,
            entities |-> ExtractEntitiesResult(ee.message)]
  /\ UNCHANGED nonEntityVars

NextEntity == ExtractEntities

(***************************************************************************)
(* SnykAuditService: getUserInfo, formatUserDisplay, getAllOrgUsers over   *)
(* the user cache of one service instance                                  *)
(***************************************************************************)
\* The four users of test/testUserInfo.js and what the directory holds of
\* them.
NameAndEmailUser == Chars("user-with-name-email")
NameOnlyUser == Chars("user-with-name-only")
EmailOnlyUser == Chars("user-with-email-only")
NothingUser == Chars("user-with-nothing")
TestUserIds == {NameAndEmailUser, NameOnlyUser, EmailOnlyUser, NothingUser}
DirectoryNameOf(id) ==
  CASE id = NameAndEmailUser -> Chars("John Doe")
    [] id = NameOnlyUser -> Chars("Jane Smith")
    [] OTHER -> Absent
DirectoryEmailOf(id) ==
  CASE id = NameAndEmailUser -> Chars("john@example.com")
    [] id = EmailOnlyUser -> Chars("anonymous@example.com")
    [] OTHER -> Absent

\* What client.getUserById resolves with: the body of the users endpoint,
\* whose fields are under data.attributes, or the flat object of the test's
\* mock; and the flat object without values that SnykApiClient.getUserById
\* returns when the request fails.
JsonApi == "data.attributes"
Flat == "flat"
AnswerShapes == {JsonApi, Flat}
UserAnswer(shape, id) ==
  [shape |-> shape, name |-> DirectoryNameOf(id), username |-> Absent,
   email |-> DirectoryEmailOf(id)]
FailedLookupAnswer == [shape |-> Flat, name |-> Absent, username |-> Absent, email |-> Absent]

\* userData.data?.attributes?.field || null
AttributeOf(userData, field) == IF userData.shape = JsonApi THEN userData[field] ELSE Absent

UnknownUserInfo ==
  [id |-> Absent, name |-> Chars("unknown user"), username |-> Absent, email |-> Absent,
   displayName |-> Chars("unknown user")]

\* getUserInfo past the cache: basicUserInfo, enhanced with what the answer
\* of getUserById holds.
FetchedUserInfo(userId, userData) ==
  LET name == AttributeOf(userData, "name")
      email == AttributeOf(userData, "email")
  IN [id |-> userId, name |-> OrElse(name, ShortId(userId)),
      username |-> AttributeOf(userData, "username"), email |-> email,
      displayName |-> DisplayName(name, email, userId)]

\* userInfo.displayName || userInfo.name || userInfo.username || `user ${id8}`
DisplayOf(userInfo, userId) ==
  OrElse(userInfo.displayName,
         OrElse(userInfo.name, OrElse(userInfo.username, UserPrefix \o ShortId(userId))))

\* Map.prototype.set: the other entries stay.
CacheSet_only(cache, key, value) == [k \in {key} |-> value]
CacheSet(cache, key, value) ==
  [k \in DOMAIN cache \cup {key} |-> IF k = key THEN value ELSE cache[k]]

\* processedUsers.forEach(user => this.userCache.set(user.id, user))
RECURSIVE CacheSetAll(_, _)
CacheSetAll(cache, users) ==
  IF users = <<>> THEN cache
  ELSE CacheSetAll(CacheSet(cache, Head(users).id, Head(users)), Tail(users))

\* The members endpoint of the organization the four users belong to, and
\* the endpoint failing.
TestMembers ==
  [i \in 1..4 |->
     LET id == <<NameAndEmailUser, NameOnlyUser, EmailOnlyUser, NothingUser>>[i]
     IN [id |-> id, name |-> DirectoryNameOf(id), username |-> Absent,
         email |-> DirectoryEmailOf(id), role |-> "collaborator"]]
RosterEndpoints ==
  {[status |-> 200, isArray |-> TRUE, members |-> TestMembers],
   [status |-> 500, isArray |-> FALSE, members |-> <<>>]}

MaxCalls == 3
NoAnswer == [shape |-> "none"]
\* What the members endpoint answered to a roster fetch.
RosterAnswer(endpoint) == [shape |-> "roster", status |-> endpoint.status]

ServiceIdle == us = IdleRec

\* new SnykAuditService(apiKey, { orgId }): empty caches
ServiceInit ==
  \E shape \in AnswerShapes :
     us = [pc |-> "ready", shape |-> shape, userCache |-> <<>>, orgUsersCache |-> NotCached,
           calls |-> <<>>]

\* The result and the cache after getUserInfo(userId), given how the lookup
\* it may make ends.
GetUserInfoOutcome(cache, userId, userData) ==
  IF userId = Absent
  THEN [info |-> UnknownUserInfo, cache |-> cache, looked |-> FALSE]
  ELSE IF userId \in DOMAIN cache
  THEN [info |-> cache[userId], cache |-> cache, looked |-> FALSE]
  ELSE [info |-> FetchedUserInfo(userId, userData),
        cache |-> CacheSet(cache, userId, FetchedUserInfo(userId, userData)),
        looked |-> TRUE]

LookupAnswers(shape, userId) == {UserAnswer(shape, userId), FailedLookupAnswer}

\* await auditService.getUserInfo(userId)
GetUserInfo ==
  /\ us.pc = "ready" /\ Len(us.calls) < MaxCalls
  /\ \E userId \in TestUserIds : \E userData \in LookupAnswers(us.shape, userId) :
       LET out == GetUserInfoOutcome(us.userCache, userId, userData)
       IN us' = [us EXCEPT
                   !.userCache = out.cache,
                   !.calls = Append(@, [op |-> "getUserInfo", id |-> userId,
                                        looked |-> out.looked,
                                        answer |-> IF out.looked THEN userData ELSE NoAnswer,
                                        result |-> out.info])]
  /\ UNCHANGED nonServiceVars

\* await auditService.formatUserDisplay(userId)
FormatUserDisplay ==
  /\ us.pc = "ready" /\ Len(us.calls) < MaxCalls
  /\ \E userId \in TestUserIds : \E userData \in LookupAnswers(us.shape, userId) :
       LET out == GetUserInfoOutcome(us.userCache, userId, userData)
       IN us' = [us EXCEPT
                   !.userCache = out.cache,
                   !.calls = Append(@, [op |-> "formatUserDisplay", id |-> userId,
                                        looked |-> out.looked,
                                        answer |-> IF out.looked THEN userData ELSE NoAnswer,
                                        result |-> DisplayOf(out.info, userId)])]
  /\ UNCHANGED nonServiceVars

\* await auditService.getAllOrgUsers(orgId, forceRefresh)
GetAllOrgUsers ==
  /\ us.pc = "ready" /\ Len(us.calls) < MaxCalls
  /\ \E forceRefresh \in BOOLEAN, endpoint \in RosterEndpoints :
       LET served == us.orgUsersCache.cached /\ ~forceRefresh
           processedUsers == ServiceGetAllOrgUsers(
                               IF forceRefresh THEN NotCached ELSE us.orgUsersCache, endpoint)
       IN us' = [us EXCEPT
                   !.orgUsersCache = IF served THEN @
                                     ELSE [cached |-> TRUE, users |-> processedUsers],
                   !.userCache = IF served THEN @ ELSE CacheSetAll(@, processedUsers),
                   !.calls = Append(@, [op |-> "getAllOrgUsers", id |-> Absent,
                                        looked |-> ~served,
                                        answer |-> IF served THEN NoAnswer
                                                   ELSE RosterAnswer(endpoint),
                                        result |-> processedUsers])]
  /\ UNCHANGED nonServiceVars

NextService == GetUserInfo \/ FormatUserDisplay \/ GetAllOrgUsers

(***************************************************************************)
(* Messages processed concurrently: SlackIntegration's message handler     *)
(* over one service instance.  A handler runs from one await to the next   *)
(* without interruption; the awaits are where handlers interleave.         *)
(***************************************************************************)
MaxMessages == 3
\* channel:user keys of the conversations, and the users looked up
ConversationKeys == {Chars("C1:U1"), Chars("C2:U1")}
RaceUserIds == {NameAndEmailUser, NothingUser}

NoContext == [lastQuery |-> Absent, lastResponse |-> Absent, lastTimestamp |-> 0, slack |-> Absent]
NoInfo == [id |-> Absent]

\* this.conversationContexts[key] = value
ContextSet(contexts, key, value) ==
  [k \in DOMAIN contexts \cup {key} |-> IF k = key THEN value ELSE contexts[k]]

\* _getConversationContext(channelId, userId), and context.slack = {...} on
\* the object it returns
GetConversationContext(contexts, key) ==
  ContextSet(contexts, key,
             [(IF key \in DOMAIN contexts THEN contexts[key] ELSE NoContext)
                EXCEPT !.slack = key])

\* _updateConversationContext(channelId, userId, updates)
UpdateConversationContext(contexts, key, updates) ==
  ContextSet(contexts, key,
             [(IF key \in DOMAIN contexts THEN contexts[key]
               ELSE [slack |-> Absent])
                EXCEPT !.lastQuery = updates.lastQuery,
                       !.lastResponse = updates.lastResponse,
                       !.lastTimestamp = updates.lastTimestamp])

RaceIdle == rc = IdleRec

\* The messages that have arrived: message n is text n, on a conversation,
\* and its answer names a user.
RaceInit ==
  \E keys \in [1..MaxMessages -> ConversationKeys], ids \in [1..MaxMessages -> RaceUserIds] :
     rc = [pc |-> "running", userCache |-> <<>>, conversationContexts |-> <<>>, clock |-> 0,
           messages |-> [n \in 1..MaxMessages |->
                           [key |-> keys[n], userId |-> ids[n], text |-> n,
                            pc |-> "received", missed |-> FALSE, wrote |-> NoInfo,
                            response |-> Absent, updates |-> NoContext]]]

\* await client.users.info resolves: the handler gets the context, puts the
\* Slack fields on it and starts processMessage, up to its first remote call
UsersInfoResolves(n) ==
  /\ rc.pc = "running" /\ rc.messages[n].pc = "received"
  /\ rc' = [rc EXCEPT
              !.conversationContexts = GetConversationContext(@, rc.messages[n].key),
              !.messages[n].pc = "processing"]
  /\ UNCHANGED nonRaceVars

\* The audit search resolves: the analysis reaches getUserInfo(userId),
\* which returns the cached entry or awaits client.getUserById
GetUserInfoStart(n) ==
  /\ rc.pc = "running" /\ rc.messages[n].pc = "processing"
  /\ LET userId == rc.messages[n].userId
     IN IF userId \in DOMAIN rc.userCache
        THEN rc' = [rc EXCEPT
                      !.messages[n].pc = "responding",
                      !.messages[n].response = DisplayOf(rc.userCache[userId], userId)]
        ELSE rc' = [rc EXCEPT !.messages[n].pc = "lookup", !.messages[n].missed = TRUE]
  /\ UNCHANGED nonRaceVars

\* client.getUserById resolves: getUserInfo stores what it built and returns
LookupReturns(n) ==
  /\ rc.pc = "running" /\ rc.messages[n].pc = "lookup"
  /\ \E userData \in LookupAnswers(JsonApi, rc.messages[n].userId) :
       LET userId == rc.messages[n].userId
           info == FetchedUserInfo(userId, userData)
       IN rc' = [rc EXCEPT
                   !.userCache = CacheSet(@, userId, info),
                   !.messages[n].pc = "responding",
                   !.messages[n].wrote = info,
                   !.messages[n].response = DisplayOf(info, userId)]
  /\ UNCHANGED nonRaceVars

\* await say resolves: the handler updates the conversation context
SayResolves(n) ==
  /\ rc.pc = "running" /\ rc.messages[n].pc = "responding"
  /\ LET updates == [NoContext EXCEPT !.lastQuery = <<rc.messages[n].text>>,
                                      !.lastResponse = rc.messages[n].response,
                                      !.lastTimestamp = rc.clock + 1]
     IN rc' = [rc EXCEPT
                 !.conversationContexts =
                    UpdateConversationContext(@, rc.messages[n].key, updates),
                 !.clock = @ + 1,
                 !.messages[n].pc = "done",
                 !.messages[n].updates = updates]
  /\ UNCHANGED nonRaceVars

NextRace ==
  \E n \in 1..MaxMessages :
     UsersInfoResolves(n) \/ GetUserInfoStart(n) \/ LookupReturns(n) \/ SayResolves(n)

(***************************************************************************)
(* HTTP endpoints: POST /webhook (WebhookHandler) and POST /config         *)
(***************************************************************************)
\* An environment variable or a header: not there, or there with its text.
Missing == [present |-> FALSE, text |-> Absent]
Given(str) == [present |-> TRUE, text |-> Chars(str)]

\* String.prototype.startsWith
StartsWith(str, prefix) ==
  Len(str) >= Len(prefix) /\ SubSeq(str, 1, Len(prefix)) = prefix
BearerPrefix == Chars("Bearer ")

\* !authHeader || !authHeader.startsWith('Bearer ')
NoBearerHeader(authHeader) ==
  ~authHeader.present \/ authHeader.text = Absent \/ ~StartsWith(authHeader.text, BearerPrefix)

\* token !== configured, for token = authHeader.split(' ')[1]: a string never
\* equals a configured value that is undefined
TokenDiffers(authHeader, configured) ==
  ~configured.present \/ SecondWord(authHeader.text) # configured.text

\* this.requireAuth = !!this.authToken
RequireAuth(authToken) == authToken.present /\ authToken.text # Absent

\* The status the webhook route answers with before it looks at the body; 0
\* when the request passes.
WebhookAuthStatus(authToken, authHeader) ==
  IF ~RequireAuth(authToken) THEN 0
  ELSE IF NoBearerHeader(authHeader) THEN 401
  ELSE IF TokenDiffers(authHeader, authToken) THEN 403
  ELSE 0

\* authenticateConfigEndpoint: the status it answers with; 0 for next()
ConfigAuthStatus(configApiToken, authHeader) ==
  IF NoBearerHeader(authHeader) THEN 401
  ELSE IF TokenDiffers(authHeader, configApiToken) THEN 403
  ELSE 0

\* The tokens a deployment may have in WEBHOOK_AUTH_TOKEN and
\* CONFIG_API_TOKEN, the Authorization headers and the bodies of requests.
ConfiguredTokens == {Missing, Given(""), Given("s3cret"), Given("other")}
AuthorizationHeaders ==
  {Missing, Given(""), Given("Basic s3cret"), Given("Bearer"), Given("Bearer "),
   Given("Bearer s3cret"), Given("Bearer wrong"), Given("bearer s3cret"),
   Given("Bearer undefined")}
RequestBodies == {Missing, Given("show me security events")}

HttpIdle == wh = IdleRec

HttpInit ==
  \E webhookAuthToken \in ConfiguredTokens, configApiToken \in ConfiguredTokens,
     path \in {"/webhook", "/config"}, authorization \in AuthorizationHeaders,
     body \in RequestBodies :
     wh = [pc |-> "received", webhookAuthToken |-> webhookAuthToken,
           configApiToken |-> configApiToken, path |-> path,
           authorization |-> authorization, body |-> body,
           status |-> 0, processed |-> FALSE, configUpdated |-> FALSE]

\* router.post('/', ...) of WebhookHandler
PostWebhook ==
  /\ wh.pc = "received" /\ wh.path = "/webhook"
  /\ LET auth == WebhookAuthStatus(wh.webhookAuthToken, wh.authorization)
         badBody == ~wh.body.present \/ wh.body.text = Absent
     IN wh' = [wh EXCEPT
                 !.pc = "answered",
                 !.status = IF auth # 0 THEN auth ELSE IF badBody THEN 400 ELSE 200,
                 !.processed = auth = 0 /\ ~badBody]
  /\ UNCHANGED nonHttpVars

\* app.post('/config', authenticateConfigEndpoint, ...): configManager.update
\* resolves or rejects
PostConfig ==
  /\ wh.pc = "received" /\ wh.path = "/config"
  /\ \E updated \in BOOLEAN :
       LET auth == ConfigAuthStatus(wh.configApiToken, wh.authorization)
       IN wh' = [wh EXCEPT
                   !.pc = "answered",
                   !.status = IF auth # 0 THEN auth ELSE IF updated THEN 200 ELSE 500,
                   !.configUpdated = auth = 0 /\ updated]
  /\ UNCHANGED nonHttpVars

NextHttp == PostWebhook \/ PostConfig

(***************************************************************************)
(* ConfigManager: init, save, update, setApiKey over the configuration     *)
(* file                                                                    *)
(***************************************************************************)
\* The API key as text, and what _encrypt makes of a text: the text under
\* the encryption key of the process that wrote it, with a random iv.
NoKey == [form |-> "plain", text |-> ""]
PlainKey(text) == [form |-> "plain", text |-> text]
OwnEncryptionKey == "ENCRYPTION_KEY"
InitializationVectors == {"iv1", "iv2"}
Encrypt(value, iv) ==
  [form |-> "iv:encryptedData", text |-> value.text, key |-> OwnEncryptionKey, iv |-> iv,
   of |-> value.form]
\* _decrypt: the text that was encrypted; it throws on text that is not
\* 'iv:encryptedData' and on data of another encryption key
DecryptThrows(value) == value.form # "iv:encryptedData" \/ value.key # OwnEncryptionKey
Decrypt(value) ==
  IF value.of = "plain" THEN PlainKey(value.text)
  ELSE [form |-> "iv:encryptedData", text |-> value.text, key |-> OwnEncryptionKey,
        iv |-> value.iv, of |-> "plain"]

ApiKeys == {"snyk-key-1", "snyk-key-2"}
NoFile == [exists |-> FALSE]
FileOf(config) == [exists |-> TRUE, encrypted |-> config.encrypted, apiKey |-> config.apiKey]
\* The file before the manager starts: none, one with a plaintext key, one
\* written with encryption on, one encrypted under another key.
StartingFiles ==
  {NoFile,
   [exists |-> TRUE, encrypted |-> FALSE, apiKey |-> NoKey],
   [exists |-> TRUE, encrypted |-> TRUE, apiKey |-> Encrypt(PlainKey("snyk-key-1"), "iv1")],
   [exists |-> TRUE, encrypted |-> TRUE,
    apiKey |-> [Encrypt(PlainKey("snyk-key-1"), "iv1") EXCEPT !.key = "another key"]]}
\* process.env.SNYK_API_KEY
EnvironmentKeys == {NoKey, PlainKey("snyk-key-1")}

NoConfig == [loaded |-> FALSE]

\* init(): the defaults, the file over them, the key decrypted, the
\* environment over that
InitConfig(file, envKey) ==
  LET baseEncrypted == IF file.exists THEN file.encrypted ELSE FALSE
      fileKey == IF file.exists THEN file.apiKey ELSE NoKey
      baseKey == IF baseEncrypted /\ fileKey # NoKey
                 THEN (IF DecryptThrows(fileKey) THEN NoKey ELSE Decrypt(fileKey))
                 ELSE fileKey
  IN [loaded |-> TRUE, encrypted |-> baseEncrypted,
      apiKey |-> IF envKey # NoKey THEN envKey ELSE baseKey]

\* if (!this.config) await this.init()
Loaded(config, file, envKey) == IF config.loaded THEN config ELSE InitConfig(file, envKey)

\* save(): the file it writes
SavedFile(config, iv) ==
  FileOf([config EXCEPT
            !.apiKey = IF config.encrypted /\ config.apiKey # NoKey THEN Encrypt(@, iv) ELSE @])

\* The updates POST /config and the callers hand to update()
ConfigUpdates ==
  {[field |-> "apiKey", apiKey |-> PlainKey(k), encrypted |-> FALSE] : k \in ApiKeys}
    \cup {[field |-> "encrypted", apiKey |-> NoKey, encrypted |-> b] : b \in BOOLEAN}
    \cup {[field |-> "orgId", apiKey |-> NoKey, encrypted |-> FALSE]}
\* { ...this.config, ...updates }
Merged(config, updates) ==
  CASE updates.field = "apiKey" -> [config EXCEPT !.apiKey = updates.apiKey]
    [] updates.field = "encrypted" -> [config EXCEPT !.encrypted = updates.encrypted]
    [] OTHER -> config

MaxConfigCalls == 3

ConfigIdle == cm = IdleRec

\* new ConfigManager()
ConfigInit ==
  \E file \in StartingFiles, envKey \in EnvironmentKeys :
     cm = [pc |-> "constructed", file |-> file, envKey |-> envKey, config |-> NoConfig,
           writes |-> 0, calls |-> 0]

ConfigManagerInit ==
  /\ cm.pc = "constructed" /\ cm.calls < MaxConfigCalls
  /\ cm' = [cm EXCEPT !.config = InitConfig(cm.file, cm.envKey), !.calls = @ + 1]
  /\ UNCHANGED nonConfigVars

\* save() on a manager that has a configuration
ConfigManagerSave ==
  /\ cm.pc = "constructed" /\ cm.calls < MaxConfigCalls /\ cm.config.loaded
  /\ \E iv \in InitializationVectors :
       cm' = [cm EXCEPT !.file = SavedFile(cm.config, iv), !.writes = @ + 1, !.calls = @ + 1]
  /\ UNCHANGED nonConfigVars

ConfigManagerUpdate ==
  /\ cm.pc = "constructed" /\ cm.calls < MaxConfigCalls
  /\ \E updates \in ConfigUpdates, iv \in InitializationVectors :
       LET config == Merged(Loaded(cm.config, cm.file, cm.envKey), updates)
       IN cm' = [cm EXCEPT !.config = config, !.file = SavedFile(config, iv),
                           !.writes = @ + 1, !.calls = @ + 1]
  /\ UNCHANGED nonConfigVars

ConfigManagerSetApiKey ==
  /\ cm.pc = "constructed" /\ cm.calls < MaxConfigCalls
  /\ \E apiKey \in ApiKeys, iv \in InitializationVectors :
       LET config == [Loaded(cm.config, cm.file, cm.envKey) EXCEPT !.apiKey = PlainKey(apiKey)]
       IN cm' = [cm EXCEPT !.config = config, !.file = SavedFile(config, iv),
                           !.writes = @ + 1, !.calls = @ + 1]
  /\ UNCHANGED nonConfigVars

NextConfig ==
  ConfigManagerInit \/ ConfigManagerSave \/ ConfigManagerUpdate \/ ConfigManagerSetApiKey

(***************************************************************************)
(* Chatbot workflows over the audit search                                 *)
(***************************************************************************)
\* The two workflows that read the audit log through fetchAllPages.
SearchIntents == {"security_events_query", "suspicious_activity_query"}

\* new Date(event.created).getUTCHours() for a created given in milliseconds
HourOfMillis(ms) == (ms \div 3600000) % 24

\* A fetched, normalized item as the anomaly detector reads it: its content
\* names no user, so the detector falls back to 'unknown'.
DetectorEventOf(item) ==
  AuditEvent(HourOfMillis(item.created), item.created, item.event,
             Absent, Absent, item.user_id)

DetectorEventsOf(items) == [i \in 1..Len(items) |-> DetectorEventOf(items[i])]

\* generateSecuritySummary: the closing test on categorizedEvents.all
SecuritySummaryKind(categorizedEvents) ==
  IF Len(categorizedEvents.all) = 0 THEN "no_security_events" ELSE "security_summary"

\* generateSuspiciousActivitySummary: suspiciousActivities.length > 0
SuspiciousSummaryKind(suspiciousActivities) ==
  IF Len(suspiciousActivities) > 0 THEN "suspicious_summary" ELSE "no_suspicious_activities"

\* _handleSecurityEventsQuery: the try block answers success: true, the
\* catch block success: false with the error's message.
HandleSecurityEventsQueryResult(threw, events) ==
  IF threw
  THEN [success |-> FALSE, message |-> "error_analyzing_security_events", data |-> 0]
  ELSE LET categorizedEvents ==
             CategorizeSecurityEventsResult(
               [highPriorityEvents |-> HighPriorityEvents,
                mediumPriorityEvents |-> MediumPriorityEvents], events)
       IN [success |-> TRUE, message |-> SecuritySummaryKind(categorizedEvents),
           data |-> Len(categorizedEvents.all)]

\* _handleSuspiciousActivityQuery: no try block of its own; a rejection
\* reaches handleRequest, which answers success: false.
HandleSuspiciousActivityQueryResult(threw, events) ==
  IF threw
  THEN [success |-> FALSE, message |-> "error_processing_request", data |-> 0]
  ELSE LET suspiciousActivities ==
             DetectAnomaliesResult(DetectorEventsOf(events),
                                   DefaultBusinessHoursStart, DefaultBusinessHoursEnd)
       IN [success |-> TRUE, message |-> SuspiciousSummaryKind(suspiciousActivities),
           data |-> Len(suspiciousActivities)]

NoWorkflowResponse == [success |-> FALSE, message |-> "none", data |-> 0]

\* The remotes the workflows are served from: the finite ones of few pages.
WorkflowRemotes == {r \in Remotes : r.mode = "finite" /\ r.n <= MaxPages}

WorkflowIdle == wf = IdleRec

\* A request of either intent whose workflow awaits the audit service.
WorkflowInit ==
  /\ remote \in WorkflowRemotes
  /\ \E intent \in SearchIntents :
       wf = [pc |-> "awaiting", intent |-> intent, response |-> NoWorkflowResponse]

\* The awaited getSecurityEvents / getAllEvents call settles and the
\* workflow builds its response.
WorkflowAnswers ==
  /\ wf.pc = "awaiting"
  /\ fpc \in {"returned", "threw"}
  /\ wf' = [wf EXCEPT
             !.pc = "answered",
             !.response =
                IF wf.intent = "security_events_query"
                THEN HandleSecurityEventsQueryResult(fpc = "threw", fresult)
                ELSE HandleSuspiciousActivityQueryResult(fpc = "threw", fresult)]
  /\ UNCHANGED nonWorkflowVars

NextWorkflow == FetchPage \/ FetchReturn \/ WorkflowAnswers

(***************************************************************************)
(* The three kinds of remote call of the API client                        *)
(***************************************************************************)
RemoteCallKinds == {"searchOrgAuditLogs", "getUserById", "getAllOrgUsers"}

\* searchOrgAuditLogs goes through this._request(...); getUserById and
\* getAllOrgUsers await this.client.get(endpoint) inside their own try block.
UsesRequestLoop(kind) == kind = "searchOrgAuditLogs"

\* What a call resolves with when its catch block absorbs the failure:
\* { id: userId, name: null, username: null, email: null } or [].
AbsorbedValue(kind) ==
  IF kind = "getUserById" THEN "minimal_user_object" ELSE "empty_list"

\* A failed attempt of a call: another attempt after a delay, or the end of
\* the call ("threw" out of _request, "absorbed" by the catch block).
AfterFailure(call, status) ==
  LET errs == Append(call.errors, status) IN
  IF UsesRequestLoop(call.kind)
  THEN IF ShouldRetry("_request", call.attempt, call.retries, status)
       THEN [call EXCEPT !.errors = errs, !.pc = "wait",
                         !.waits = Append(call.waits,
                                          BackoffDelay(call.retryDelay, call.attempt))]
       ELSE [call EXCEPT !.errors = errs, !.pc = "threw"]
  ELSE [call EXCEPT !.errors = errs, !.pc = "absorbed",
                    !.value = AbsorbedValue(call.kind)]

RemoteCallIdle == rk = IdleRec

\* A client constructed with the given retry options, about to make one call.
RemoteCallInit ==
  \E kind \in RemoteCallKinds, cr \in ConfiguredRetries, cd \in ConfiguredDelays :
    rk = [kind |-> kind,
          retries |-> EffectiveRetries("_request", cr),
          retryDelay |-> EffectiveDelay("_request", cd),
          attempt |-> 0,
          errors |-> <<>>,
          waits |-> <<>>,
          pc |-> "attempt",     \* "attempt" | "wait" | "returned" | "threw" | "absorbed"
          value |-> "none"]

\* The awaited request resolves: return response.data
RemoteAttemptSucceeds ==
  /\ rk.pc = "attempt"
  /\ rk' = [rk EXCEPT !.pc = "returned", !.value = "response_data"]
  /\ UNCHANGED nonRemoteCallVars

\* The awaited request rejects with the given status.
RemoteAttemptFails ==
  /\ rk.pc = "attempt"
  /\ \E status \in FailureStatuses : rk' = AfterFailure(rk, status)
  /\ UNCHANGED nonRemoteCallVars

\* The delay of _request has elapsed: attempt++
RemoteRetryWakes ==
  /\ rk.pc = "wait"
  /\ rk' = [rk EXCEPT !.pc = "attempt", !.attempt = rk.attempt + 1]
  /\ UNCHANGED nonRemoteCallVars

NextRemoteCall == RemoteAttemptSucceeds \/ RemoteAttemptFails \/ RemoteRetryWakes

(***************************************************************************)
(* Security summary message                                                *)
(***************************************************************************)
\* categorizedEvents.highPriority.slice(0, 5)
ShownPerTier == 5

\* Bound on the number of events of one kind in the summarized list.
MaxTierEvents == 6

\* A list of a high-priority, b medium-priority, c SAST settings and d other
\* low-priority events, each with its own creation instant.
TierMix(a, b, c, d) ==
  [i \in 1..(a + b + c + d) |->
     AuditEvent(10, i,
                IF i <= a THEN "org.policy.create"
                ELSE IF i <= a + b THEN "org.policy.edit"
                ELSE IF i <= a + b + c THEN "org.sast_settings.edit"
                ELSE "org.webhook.delete",
                Absent, Absent, Ann)]

\* One '- <event> by <user> (<time>)' line of the message.
SummaryLine(event) ==
  [event |-> event.event,
   user |-> OrElse(event.user_id,
                   OrElse(event.content.user_id, event.content.performed_by)),
   created |-> event.created.stamp]

SummaryLines(events) == [i \in 1..Len(events) |-> SummaryLine(events[i])]

\* lowPriority.filter(event => event.event === 'org.sast_settings.edit')
SastEvents(lowPriority) ==
  SelectSeq(lowPriority, LAMBDA event : event.event = "org.sast_settings.edit")

\* A section the message leaves out.
NoSection == [shown |-> FALSE, count |-> 0, lines |-> <<>>]

\* for (const event of sastEvents): one line per SAST settings event
LowPriorityLines(lowPriority) == SummaryLines(SastEvents(lowPriority))

\* The high and the medium priority section: the header with the count and
\* the lines of slice(0, 5).
TierSection(tier) ==
  IF Len(tier) > 0
  THEN [shown |-> TRUE, count |-> Len(tier),
        lines |-> SummaryLines(Slice(tier, ShownPerTier))]
  ELSE NoSection

\* generateSecuritySummary(categorizedEvents, days): the three sections, or
\* the canned message alone when categorizedEvents.all is empty.
GenerateSecuritySummaryResult(categorizedEvents) ==
  IF Len(categorizedEvents.all) = 0
  THEN [kind |-> "no_security_events",
        high |-> NoSection, medium |-> NoSection, low |-> NoSection]
  ELSE [kind |-> "security_summary",
        high |-> TierSection(categorizedEvents.highPriority),
        medium |-> TierSection(categorizedEvents.mediumPriority),
        low |-> IF Len(categorizedEvents.lowPriority) > 0
                THEN [shown |-> TRUE, count |-> Len(categorizedEvents.lowPriority),
                      lines |-> LowPriorityLines(categorizedEvents.lowPriority)]
                ELSE NoSection]

NoCategories ==
  [highPriority |-> <<>>, mediumPriority |-> <<>>, lowPriority |-> <<>>, all |-> <<>>]
NoSummary == [kind |-> "none", high |-> NoSection, medium |-> NoSection, low |-> NoSection]

SummaryIdle == sm = IdleRec

\* The events getSecurityEvents resolved with, before they are categorized.
SummaryInit ==
  \E a \in 0..MaxTierEvents, b \in 0..MaxTierEvents,
     c \in 0..MaxTierEvents, d \in 0..MaxTierEvents :
    sm = [pc |-> "fetched", events |-> TierMix(a, b, c, d),
          categorizedEvents |-> NoCategories, message |-> NoSummary]

\* await this.securityEventAnalyzer.categorizeSecurityEvents(events)
SummaryCategorize ==
  /\ sm.pc = "fetched"
  /\ sm' = [sm EXCEPT
             !.pc = "categorized",
             !.categorizedEvents =
                CategorizeSecurityEventsResult(
                  [highPriorityEvents |-> HighPriorityEvents,
                   mediumPriorityEvents |-> MediumPriorityEvents], sm.events)]
  /\ UNCHANGED nonSummaryVars

\* await this.securityEventAnalyzer.generateSecuritySummary(categorizedEvents, days)
GenerateSecuritySummary ==
  /\ sm.pc = "categorized"
  /\ sm' = [sm EXCEPT !.pc = "summarized",
                      !.message = GenerateSecuritySummaryResult(sm.categorizedEvents)]
  /\ UNCHANGED nonSummaryVars

NextSummary == SummaryCategorize \/ GenerateSecuritySummary

(***************************************************************************)
(* Days of a time period                                                   *)
(***************************************************************************)
\* lowerTimePeriod.match(/(\d+)/): the first run of digits, Absent if none
FirstNumber(str) ==
  LET at == {i \in 1..Len(str) : str[i] \in Digits}
  IN IF at = {} THEN Absent
     ELSE LET i == CHOOSE i \in at : \A j \in at : i <= j
          IN LeadingDigits(SubSeq(str, i, Len(str)))

\* _parseDaysFromTimePeriod(timePeriod): the phrase tests come first, the
\* number is read only when none of them returns.
ParseDaysFromTimePeriod(timePeriod) ==
  LET lowerTimePeriod == ToLowerCase(timePeriod)
      has(word) == Includes(lowerTimePeriod, Chars(word))
      matches == FirstNumber(lowerTimePeriod)
      num == ParseInt(matches)
  IN IF has("hour") \/ has("today") THEN 1
     ELSE IF has("yesterday") \/ has("24 hour") THEN 1
     ELSE IF has("week") THEN 7
     ELSE IF has("month") THEN 30
     ELSE IF has("quarter") \/ has("3 month") THEN 90
     ELSE IF has("year") THEN 365
     ELSE IF matches # Absent
     THEN (IF has("day") THEN num
           ELSE IF has("week") THEN num * 7
           ELSE IF has("month") THEN num * 30
           ELSE IF has("year") THEN num * 365
           ELSE num)
     ELSE 7

\* The decimal digits of a number, as the user types them.
RECURSIVE DigitsOf(_)
DigitsOf(n) ==
  IF n < 10 THEN <<SubSeq("0123456789", n + 1, n + 1)>>
  ELSE Append(DigitsOf(n \div 10), SubSeq("0123456789", (n % 10) + 1, (n % 10) + 1))

\* Bound on the count of a time period.
MaxPeriodCount == 12

PeriodUnits == {"days", "hours", "weeks", "months", "years"}

\* The three phrasings of a counted time period the extractor accepts.
PeriodMessage(phrasing, n, unit) ==
  IF phrasing = "last" THEN Chars("events of the last ") \o DigitsOf(n) \o <<" ">> \o Chars(unit)
  ELSE IF phrasing = "past" THEN Chars("past ") \o DigitsOf(n) \o <<" ">> \o Chars(unit)
  ELSE DigitsOf(n) \o <<" ">> \o Chars(unit) \o Chars(" ago")

PeriodIdle == tp = IdleRec

\* A message that names a counted time period reaches the pipeline.
PeriodInit ==
  \E phrasing \in {"last", "past", "ago"}, n \in 1..MaxPeriodCount, unit \in PeriodUnits :
    tp = [pc |-> "received", count |-> n, unit |-> unit,
          message |-> StringValue(PeriodMessage(phrasing, n, unit)),
          entities |-> <<>>, days |-> 0]

\* entityExtractor.extractEntities(message)
PeriodExtract ==
  /\ tp.pc = "received"
  /\ tp' = [tp EXCEPT !.pc = "extracted", !.entities = ExtractEntitiesResult(tp.message)]
  /\ UNCHANGED nonPeriodVars

\* const days = entities.time_period ? this._parseDaysFromTimePeriod(...) : 7
PeriodDays ==
  /\ tp.pc = "extracted"
  /\ tp' = [tp EXCEPT
             !.pc = "parsed",
             !.days = IF "time_period" \in DOMAIN tp.entities
                         /\ ~Falsy(tp.entities["time_period"])
                      THEN ParseDaysFromTimePeriod(tp.entities["time_period"].text)
                      ELSE 7]
  /\ UNCHANGED nonPeriodVars

NextPeriod == PeriodExtract \/ PeriodDays

(***************************************************************************)
(* processMessage: from the recognized intent to the route taken           *)
(***************************************************************************)
\* The recognizer's confidences are in thousandths, the thresholds of the
\* pipeline in hundredths.
Thousandths(hundredths) == hundredths * 10

\* config.confidenceThreshold as configured, in thousandths: absent, 0, 0.9
ConfiguredThresholds == {Unset, 0, 900}

\* this.confidenceThreshold = config.confidenceThreshold || 0.3
EffectiveThreshold(cfg) ==
  IF cfg = Unset \/ cfg = 0 THEN Thousandths(DefaultConfidenceThreshold) ELSE cfg

QuestionIndicators ==
  {"what", "how", "when", "who", "why", "where", "which", "show", "tell", "find"}

\* questionIndicators.some(indicator => message.toLowerCase().includes(indicator))
HasQuestionIndicator(message) ==
  \E indicator \in QuestionIndicators : Includes(ToLowerCase(message), Chars(indicator))

\* A check that also sends a confidence equal to the threshold to the
\* low-confidence handling.
IsLowConfidence_inclusive(confidence, threshold) == confidence <= threshold

\* if (intentResult.confidence < this.confidenceThreshold)
IsLowConfidence(confidence, threshold) == confidence < threshold

\* The response of processMessage past the initialization: what
\* handleRequest returns, with clarification set on the low-confidence
\* route, or the fallback response.
RoutedResponse(message, intentResult, threshold) ==
  IF IsLowConfidence(intentResult.confidence, threshold)
  THEN IF /\ HasQuestionIndicator(message.text)
          /\ intentResult.confidence >= Thousandths(ClarificationFloor)
       THEN [route |-> "low_confidence", intent |-> intentResult.intent,
             fallback |-> FALSE, clarification |-> TRUE]
       ELSE [route |-> "low_confidence", intent |-> "none",
             fallback |-> TRUE, clarification |-> FALSE]
  ELSE [route |-> "handleRequest", intent |-> intentResult.intent,
        fallback |-> FALSE, clarification |-> FALSE]

NoRoute == [route |-> "none", intent |-> "none", fallback |-> FALSE, clarification |-> FALSE]

RoutingIdle == nr = IdleRec

\* new ChatbotNlpIntegration(config), initialized, before a message
RoutingInit ==
  \E cfg \in ConfiguredThresholds :
    nr = [pc |-> "recognizing", confidenceThreshold |-> EffectiveThreshold(cfg),
          response |-> NoRoute]

\* processMessage after recognizeIntent has returned: the confidence check
\* and the route it selects.
RouteMessage ==
  /\ nr.pc = "recognizing"
  /\ ir.pc = "recognized"
  /\ nr' = [nr EXCEPT !.pc = "routed",
                      !.response = RoutedResponse(ir.message, ir.result,
                                                  nr.confidenceThreshold)]
  /\ UNCHANGED nonRoutingVars

NextRouting == RecognizeIntent \/ RouteMessage

(***************************************************************************)
(* Who-did-it queries: SnykChatbotWrapper._handleEventByUserQuery          *)
(***************************************************************************)
\* eventMap, in declaration order.
EventMap ==
  <<[key |-> "integration", prefix |-> "org.integration."],
    [key |-> "policy", prefix |-> "org.policy."],
    [key |-> "webhook", prefix |-> "org.webhook."],
    [key |-> "user", prefix |-> "org.user.role."],
    [key |-> "service account", prefix |-> "org.service_account."],
    [key |-> "sast settings", prefix |-> "org.sast_settings."],
    [key |-> "project", prefix |-> "org.project."],
    [key |-> "target", prefix |-> "org.target."],
    [key |-> "app", prefix |-> "org.app."],
    [key |-> "collection", prefix |-> "org.collection."]>>

\* The keywords of the fallback, in the order of the else-if chain.
FallbackKeywords ==
  <<"integration", "policy", "webhook", "user", "service account",
    "sast settings", "project">>

\* The first keyword the original message includes, Absent if none.
FallbackEventType(originalMessage) ==
  LET hits == {n \in 1..Len(FallbackKeywords) :
                 Includes(originalMessage, Chars(FallbackKeywords[n]))}
  IN IF hits = {} THEN Absent
     ELSE Chars(FallbackKeywords[CHOOSE n \in hits : \A m \in hits : n <= m])

\* Object.keys(eventMap).find(key => eventType.includes(key)): the place of
\* the first key the event type includes, 0 if there is none.
SnykEventPattern(eventType) ==
  LET hits == {n \in 1..Len(EventMap) : Includes(eventType, Chars(EventMap[n].key))}
  IN IF hits = {} THEN 0 ELSE CHOOSE n \in hits : \A m \in hits : n <= m

\* event.content?.user_id || event.content?.performed_by of the filtered
\* events, without the empty ones and without repetitions.
UsersOf(filteredEvents) ==
  LET named == [i \in 1..Len(filteredEvents) |->
                  OrElse(filteredEvents[i].content.user_id,
                         filteredEvents[i].content.performed_by)]
      kept == SelectIdx(Len(named), {i \in 1..Len(named) : named[i] # Absent})
  IN Distinct([k \in 1..Len(kept) |-> named[kept[k]]])

QueryReply(kind, eventType, days, prefix, fetched, users) ==
  [kind |-> kind, eventType |-> eventType, days |-> days, prefix |-> prefix,
   fetched |-> fetched, users |-> users]

\* _handleEventByUserQuery(entities, context) inside the try of
\* handleRequest, for the outcome of auditService.getAllEvents(days).
HandleEventByUserQueryResult(entities, originalMessage, fetch) ==
  LET days == IF "time_period" \in DOMAIN entities /\ ~Falsy(entities["time_period"])
              THEN ParseDaysFromTimePeriod(entities["time_period"].text)
              ELSE 7
      extracted == IF "event_type" \in DOMAIN entities /\ ~Falsy(entities["event_type"])
                   THEN entities["event_type"].text
                   ELSE Absent
      eventType == IF extracted # Absent THEN extracted
                   ELSE FallbackEventType(originalMessage)
      at == SnykEventPattern(eventType)
      kept == SelectIdx(Len(fetch.events),
                        {i \in 1..Len(fetch.events) :
                           StartsWith(Chars(fetch.events[i].event),
                                      Chars(EventMap[at].prefix))})
      filteredEvents == [k \in 1..Len(kept) |-> fetch.events[kept[k]]]
  IN IF eventType = Absent
     THEN QueryReply("need_event_type", Absent, days, "", FALSE, <<>>)
     ELSE IF at = 0
     THEN QueryReply("unknown_event_type", eventType, days, "", FALSE, <<>>)
     ELSE IF fetch.failed /\ HandleRequestHasTry
     THEN QueryReply("router_error", eventType, days, EventMap[at].prefix, TRUE, <<>>)
     ELSE IF filteredEvents = <<>>
     THEN QueryReply("none_found", eventType, days, EventMap[at].prefix, TRUE, <<>>)
     ELSE QueryReply("users", eventType, days, EventMap[at].prefix, TRUE,
                     UsersOf(filteredEvents))

\* ---- inputs
\* The verbs and nouns of the '(verb) (noun)' event_type pattern.
QueryVerbs ==
  {"modified", "changed", "updated", "created", "deleted", "added", "removed"}
QueryNouns ==
  {"integrations", "policies", "webhooks", "users", "roles", "projects",
   "service accounts", "sast settings", "targets", "apps", "collections"}
NoNoun == ""

\* Questions that name no verb and noun pair: one the fallback resolves,
\* one that names nothing, one in the '... changes' form with a period.
OtherQueries ==
  {"who touched the webhook", "who did it", "who made policy changes last 3 days"}

\* What getAllEvents(days) gives: nothing, a week of events, or an error.
QueryEvents ==
  <<AuditEvent(10, 1, "org.integration.create", MemberId(1), Absent, Absent),
    AuditEvent(11, 2, "org.policy.edit", Absent, MemberId(2), Absent),
    AuditEvent(12, 3, "org.user.role.edit", MemberId(1), Absent, Absent),
    AuditEvent(13, 4, "org.policy.create", Absent, Absent, MemberId(3)),
    AuditEvent(14, 5, "org.policy.delete", MemberId(2), Absent, Absent)>>
QueryFetches ==
  {[failed |-> FALSE, events |-> <<>>],
   [failed |-> FALSE, events |-> QueryEvents],
   [failed |-> TRUE, events |-> <<>>]}

NoReply == QueryReply("none", Absent, 0, "", FALSE, <<>>)

EventQueryIdle == eu = IdleRec

\* A who-did-it question reaches the pipeline.
EventQueryInit ==
  \/ \E verb \in QueryVerbs, noun \in QueryNouns :
       eu = [pc |-> "received", noun |-> noun,
             message |-> StringValue(Chars("who ") \o Chars(verb) \o <<" ">> \o Chars(noun)),
             entities |-> <<>>, reply |-> NoReply]
  \/ \E other \in OtherQueries :
       eu = [pc |-> "received", noun |-> NoNoun, message |-> StringValue(Chars(other)),
             entities |-> <<>>, reply |-> NoReply]

\* entityExtractor.extractEntities(message)
EventQueryExtract ==
  /\ eu.pc = "received"
  /\ eu' = [eu EXCEPT !.pc = "extracted", !.entities = ExtractEntitiesResult(eu.message)]
  /\ UNCHANGED nonEventQueryVars

\* handleRequest('event_by_user_query', entities, context)
HandleEventByUserQuery ==
  /\ eu.pc = "extracted"
  /\ \E fetch \in QueryFetches :
       eu' = [eu EXCEPT
               !.pc = "answered",
               !.reply = HandleEventByUserQueryResult(eu.entities, eu.message.text, fetch)]
  /\ UNCHANGED nonEventQueryVars

NextEventQuery == EventQueryExtract \/ HandleEventByUserQuery

(***************************************************************************)
(* Specifications                                                          *)
(***************************************************************************)
InitFetch == FetchInit /\ RetryIdle /\ PipelineIdle /\ AnomalyIdle /\ CategorizeIdle /\ ActivityIdle /\ IntentIdle /\ EntityIdle /\ ServiceIdle /\ RaceIdle /\ HttpIdle /\ ConfigIdle /\ WorkflowIdle /\ RemoteCallIdle /\ SummaryIdle /\ PeriodIdle /\ RoutingIdle /\ EventQueryIdle
SpecFetch == InitFetch /\ [][NextFetch]_vars
SpecFetchFair == InitFetch /\ [][NextFetch]_vars /\ WF_vars(NextFetch)

InitRetry == RetryInit /\ FetchIdle /\ PipelineIdle /\ AnomalyIdle /\ CategorizeIdle /\ ActivityIdle /\ IntentIdle /\ EntityIdle /\ ServiceIdle /\ RaceIdle /\ HttpIdle /\ ConfigIdle /\ WorkflowIdle /\ RemoteCallIdle /\ SummaryIdle /\ PeriodIdle /\ RoutingIdle /\ EventQueryIdle
SpecRetry == InitRetry /\ [][NextRetry]_vars

InitPipeline == PipelineInit /\ FetchIdle /\ RetryIdle /\ AnomalyIdle /\ CategorizeIdle /\ ActivityIdle /\ IntentIdle /\ EntityIdle /\ ServiceIdle /\ RaceIdle /\ HttpIdle /\ ConfigIdle /\ WorkflowIdle /\ RemoteCallIdle /\ SummaryIdle /\ PeriodIdle /\ RoutingIdle /\ EventQueryIdle
SpecPipeline == InitPipeline /\ [][NextPipeline]_vars

InitAnomaly ==
  /\ AnomalyInit(SeqsUpTo(VolumeEventKinds, MaxEvents))
  /\ FetchIdle /\ RetryIdle /\ PipelineIdle /\ CategorizeIdle /\ ActivityIdle /\ IntentIdle /\ EntityIdle /\ ServiceIdle /\ RaceIdle /\ HttpIdle /\ ConfigIdle /\ WorkflowIdle /\ RemoteCallIdle /\ SummaryIdle /\ PeriodIdle /\ RoutingIdle /\ EventQueryIdle
SpecAnomaly == InitAnomaly /\ [][NextAnomaly]_vars

InitAnomalyHours ==
  /\ AnomalyInit({<<e>> : e \in HourEventKinds} \cup {<<DaytimeEvent, e>> : e \in HourEventKinds})
  /\ FetchIdle /\ RetryIdle /\ PipelineIdle /\ CategorizeIdle /\ ActivityIdle /\ IntentIdle /\ EntityIdle /\ ServiceIdle /\ RaceIdle /\ HttpIdle /\ ConfigIdle /\ WorkflowIdle /\ RemoteCallIdle /\ SummaryIdle /\ PeriodIdle /\ RoutingIdle /\ EventQueryIdle
SpecAnomalyHours == InitAnomalyHours /\ [][NextAnomalyHours]_vars

InitCategorize ==
  /\ CategorizeInit
  /\ FetchIdle /\ RetryIdle /\ PipelineIdle /\ AnomalyIdle /\ ActivityIdle /\ IntentIdle /\ EntityIdle /\ ServiceIdle /\ RaceIdle /\ HttpIdle /\ ConfigIdle /\ WorkflowIdle /\ RemoteCallIdle /\ SummaryIdle /\ PeriodIdle /\ RoutingIdle /\ EventQueryIdle
SpecCategorize == InitCategorize /\ [][NextCategorize]_vars

InitActivity ==
  /\ ActivityInit
  /\ FetchIdle /\ RetryIdle /\ PipelineIdle /\ AnomalyIdle /\ CategorizeIdle /\ IntentIdle /\ EntityIdle /\ ServiceIdle /\ RaceIdle /\ HttpIdle /\ ConfigIdle /\ WorkflowIdle /\ RemoteCallIdle /\ SummaryIdle /\ PeriodIdle /\ RoutingIdle /\ EventQueryIdle
SpecActivity == InitActivity /\ [][NextActivity]_vars

InitIntent == IntentInit /\ FetchIdle /\ RetryIdle /\ PipelineIdle /\ AnomalyIdle /\ CategorizeIdle /\ ActivityIdle /\ EntityIdle /\ ServiceIdle /\ RaceIdle /\ HttpIdle /\ ConfigIdle /\ WorkflowIdle /\ RemoteCallIdle /\ SummaryIdle /\ PeriodIdle /\ RoutingIdle /\ EventQueryIdle
SpecIntent == InitIntent /\ [][NextIntent]_vars

InitEntity == EntityInit /\ FetchIdle /\ RetryIdle /\ PipelineIdle /\ AnomalyIdle /\ CategorizeIdle /\ ActivityIdle /\ IntentIdle /\ ServiceIdle /\ RaceIdle /\ HttpIdle /\ ConfigIdle /\ WorkflowIdle /\ RemoteCallIdle /\ SummaryIdle /\ PeriodIdle /\ RoutingIdle /\ EventQueryIdle
SpecEntity == InitEntity /\ [][NextEntity]_vars

InitService == ServiceInit /\ FetchIdle /\ RetryIdle /\ PipelineIdle /\ AnomalyIdle /\ CategorizeIdle /\ ActivityIdle /\ IntentIdle /\ EntityIdle /\ RaceIdle /\ HttpIdle /\ ConfigIdle /\ WorkflowIdle /\ RemoteCallIdle /\ SummaryIdle /\ PeriodIdle /\ RoutingIdle /\ EventQueryIdle
SpecService == InitService /\ [][NextService]_vars

InitRace == RaceInit /\ FetchIdle /\ RetryIdle /\ PipelineIdle /\ AnomalyIdle /\ CategorizeIdle /\ ActivityIdle /\ IntentIdle /\ EntityIdle /\ ServiceIdle /\ HttpIdle /\ ConfigIdle /\ WorkflowIdle /\ RemoteCallIdle /\ SummaryIdle /\ PeriodIdle /\ RoutingIdle /\ EventQueryIdle
SpecRace == InitRace /\ [][NextRace]_vars

InitHttp == HttpInit /\ FetchIdle /\ RetryIdle /\ PipelineIdle /\ AnomalyIdle /\ CategorizeIdle /\ ActivityIdle /\ IntentIdle /\ EntityIdle /\ ServiceIdle /\ RaceIdle /\ ConfigIdle /\ WorkflowIdle /\ RemoteCallIdle /\ SummaryIdle /\ PeriodIdle /\ RoutingIdle /\ EventQueryIdle
SpecHttp == InitHttp /\ [][NextHttp]_vars

InitConfigManager == ConfigInit /\ FetchIdle /\ RetryIdle /\ PipelineIdle /\ AnomalyIdle /\ CategorizeIdle /\ ActivityIdle /\ IntentIdle /\ EntityIdle /\ ServiceIdle /\ RaceIdle /\ HttpIdle /\ WorkflowIdle /\ RemoteCallIdle /\ SummaryIdle /\ PeriodIdle /\ RoutingIdle /\ EventQueryIdle
SpecConfig == InitConfigManager /\ [][NextConfig]_vars

InitWorkflow == FetchInit /\ WorkflowInit /\ RetryIdle /\ PipelineIdle /\ AnomalyIdle /\ CategorizeIdle /\ ActivityIdle /\ IntentIdle /\ EntityIdle /\ ServiceIdle /\ RaceIdle /\ HttpIdle /\ ConfigIdle /\ RemoteCallIdle /\ SummaryIdle /\ PeriodIdle /\ RoutingIdle /\ EventQueryIdle
SpecWorkflow == InitWorkflow /\ [][NextWorkflow]_vars

InitRemoteCall == RemoteCallInit /\ FetchIdle /\ RetryIdle /\ PipelineIdle /\ AnomalyIdle /\ CategorizeIdle /\ ActivityIdle /\ IntentIdle /\ EntityIdle /\ ServiceIdle /\ RaceIdle /\ HttpIdle /\ ConfigIdle /\ WorkflowIdle /\ SummaryIdle /\ PeriodIdle /\ RoutingIdle /\ EventQueryIdle
SpecRemoteCall == InitRemoteCall /\ [][NextRemoteCall]_vars

InitSummary == SummaryInit /\ FetchIdle /\ RetryIdle /\ PipelineIdle /\ AnomalyIdle /\ CategorizeIdle /\ ActivityIdle /\ IntentIdle /\ EntityIdle /\ ServiceIdle /\ RaceIdle /\ HttpIdle /\ ConfigIdle /\ WorkflowIdle /\ RemoteCallIdle /\ PeriodIdle /\ RoutingIdle /\ EventQueryIdle
SpecSummary == InitSummary /\ [][NextSummary]_vars

InitPeriod == PeriodInit /\ FetchIdle /\ RetryIdle /\ PipelineIdle /\ AnomalyIdle /\ CategorizeIdle /\ ActivityIdle /\ IntentIdle /\ EntityIdle /\ ServiceIdle /\ RaceIdle /\ HttpIdle /\ ConfigIdle /\ WorkflowIdle /\ RemoteCallIdle /\ SummaryIdle /\ RoutingIdle /\ EventQueryIdle
SpecPeriod == InitPeriod /\ [][NextPeriod]_vars

InitRouting == IntentInit /\ RoutingInit /\ FetchIdle /\ RetryIdle /\ PipelineIdle /\ AnomalyIdle /\ CategorizeIdle /\ ActivityIdle /\ EntityIdle /\ ServiceIdle /\ RaceIdle /\ HttpIdle /\ ConfigIdle /\ WorkflowIdle /\ RemoteCallIdle /\ SummaryIdle /\ PeriodIdle /\ EventQueryIdle
SpecRouting == InitRouting /\ [][NextRouting]_vars

InitEventQuery == EventQueryInit /\ FetchIdle /\ RetryIdle /\ PipelineIdle /\ AnomalyIdle /\ CategorizeIdle /\ ActivityIdle /\ IntentIdle /\ EntityIdle /\ ServiceIdle /\ RaceIdle /\ HttpIdle /\ ConfigIdle /\ WorkflowIdle /\ RemoteCallIdle /\ SummaryIdle /\ PeriodIdle /\ RoutingIdle
SpecEventQuery == InitEventQuery /\ [][NextEventQuery]_vars

(***************************************************************************)
(* Claims about the fetch engine (SpecFetch, SpecFetchFair)                *)
(***************************************************************************)
FetchFinished == fpc \in {"returned", "threw"}

\* C1: when a page request of fetchAllPages fails with a non-retriable error,
\* fetchAllPages fails with that error and returns no partial list.
C1_FailedPageFailsWholeCall ==
  (FetchFinished /\ failedCalls > 0) => fpc = "threw"

\* A search function whose every response carries a next link with a
\* non-empty cursor, and which never rejects.
AlwaysNextRemote == remote.mode = "endless" /\ remote.failAt = 0

\* C3: against a search function that always returns a next link with a
\* non-empty cursor, fetchAllPages terminates, after exactly 100 search calls.
C3_StopsAtExactly100Calls ==
  /\ [](AlwaysNextRemote =>
          /\ calls <= PageLimit
          /\ (fpc = "returned" => calls = PageLimit))
  /\ (AlwaysNextRemote ~> (fpc = "returned"))

C3_Witness ==
  /\ AlwaysNextRemote
  /\ fpc = "returned"
  /\ calls = PageLimit
  /\ page = PageLimit + 1

\* A collection of n <= 100 pages chained by cursors whose last page has no
\* next link, served without failure in one of the two recognised page shapes.
ChainedRemote ==
  /\ remote.mode = "finite"
  /\ remote.n <= PageLimit
  /\ remote.lastLink = "none"
  /\ remote.failAt = 0
  /\ remote.shape \in {"array", "items"}

\* The events of pages 1..n in page order, in normalized form.
ExpectedEvents(n) ==
  FlattenSeq([c \in 1..n |-> [k \in 1..ItemsOnPage(c) |-> ItemFields(c, k)]])

\* C4: for n chained pages (1 <= n <= 100) fetchAllPages makes exactly n
\* search calls, every call after the first carries the cursor of the previous
\* page's next link, and the result is the concatenation of all pages' items
\* in page order, none lost and none duplicated.
C4_ChainedPagesConcatenated ==
  (ChainedRemote /\ fpc = "returned") =>
    /\ calls = remote.n
    /\ sentCursors = [i \in 1..remote.n |->
                        IF i = 1 THEN 0 ELSE PageLink(remote, i - 1).cursor]
    /\ fresult = ExpectedEvents(remote.n)
    /\ \A i, j \in 1..Len(fresult) : i # j => fresult[i].created # fresult[j].created

C4_Witness ==
  /\ ChainedRemote
  /\ remote.n = 4
  /\ fpc = "returned"
  /\ calls = 4
  /\ Len(fresult) >= 4

(***************************************************************************)
(* Claims about the retry loop (SpecRetry)                                 *)
(***************************************************************************)
\* The failures the claim calls transient: a timeout, any 5xx, 429, 408.
TransientFailures ==
  {NoResponse, 408, 429} \cup {st \in FailureStatuses : st >= 500 /\ st <= 599}

\* C5: a request that fails with a transient failure is attempted again, up to
\* retries re-attempts, waiting retryDelay * 2^k before re-attempt k; a success
\* returns its data at once and when every attempt fails the last error is
\* raised.
C5_TransientFailureRetried ==
  /\ (rq.pc = "threw" /\ rq.thrown \in TransientFailures) =>
        Len(rq.errors) = rq.retries + 1
  /\ rq.pc \in {"attempt", "wait", "returned", "threw"} =>
        /\ Len(rq.errors) <= rq.retries + 1
        /\ \A k \in 1..Len(rq.waits) : rq.waits[k] = rq.retryDelay * Pow2(k - 1)
        /\ (rq.pc = "returned" => rq.data = Len(rq.errors))
        /\ (rq.pc = "threw" => rq.thrown = rq.errors[Len(rq.errors)])

(***************************************************************************)
(* Claims about the request pipeline (SpecPipeline)                        *)
(***************************************************************************)
\* C2: handleRequest and processMessage complete by returning a response
\* object and let no exception reach the channel adapter; when a workflow
\* raised an exception the response has success = false and a message that
\* carries the error.
C2_NoExceptionEscapes ==
  pm.pc = "done" =>
    /\ ~pm.escaped
    /\ pm.response.kind # "none"
    /\ pm.raised => (/\ pm.response.success = FALSE
                     /\ pm.response.err = pm.raisedErr
                     /\ pm.response.err # "none")

C2_Witness ==
  /\ pm.pc = "done"
  /\ pm.entry = "handleRequest"
  /\ pm.intent = "suspicious_activity_query"
  /\ pm.raised
  /\ pm.raisedErr = "ServiceError"
  /\ pm.response.kind = "router_error"

(***************************************************************************)
(* Claims about the anomaly detector (SpecAnomaly, SpecAnomalyHours)       *)
(***************************************************************************)
HighVolumeRecordsOf(actor, type) ==
  {j \in 1..Len(ad.suspiciousActivities) :
     /\ ad.suspiciousActivities[j].type = "high_volume_sensitive_actions"
     /\ ad.suspiciousActivities[j].user = actor
     /\ ad.suspiciousActivities[j].eventType = type}

OccurrencesOf(actor, type) ==
  Cardinality({i \in 1..Len(ad.events) :
                 ActivityUser(ad.events[i]) = actor /\ ad.events[i].event = type})

\* C8: for every (actor, event type) pair, the actor being the user the
\* normalized event names, detectAnomalies produces exactly one
\* high_volume_sensitive_actions record of severity medium when the type is
\* security-critical and the pair occurs more than 5 times, and no such
\* record otherwise; every such record is the record of a pair of the list.
C8_VolumeRule ==
  ad.pc = "detected" =>
    /\ \A i \in 1..Len(ad.events) :
         LET actor == ActivityUser(ad.events[i])
             type == ad.events[i].event
         IN IF type \in SecurityCriticalEvents /\ OccurrencesOf(actor, type) > 5
            THEN /\ Cardinality(HighVolumeRecordsOf(actor, type)) = 1
                 /\ \A j \in HighVolumeRecordsOf(actor, type) :
                      ad.suspiciousActivities[j].severity = "medium"
            ELSE HighVolumeRecordsOf(actor, type) = {}
    /\ \A j \in 1..Len(ad.suspiciousActivities) :
         ad.suspiciousActivities[j].type = "high_volume_sensitive_actions" =>
           OccurrencesOf(ad.suspiciousActivities[j].user,
                         ad.suspiciousActivities[j].eventType) > 5

AfterHoursRecordsOf(event) ==
  {j \in 1..Len(ad.suspiciousActivities) :
     /\ ad.suspiciousActivities[j].type = "after_hours_activity"
     /\ ad.suspiciousActivities[j].time = event.created.stamp}

TiersHolding(result, event) ==
  {tier \in {"highPriority", "mediumPriority", "lowPriority"} :
     \E j \in 1..Len(result[tier]) : result[tier][j] = event}

ExpectedTier(event) ==
  IF event.event \in HighPriorityEvents THEN "highPriority"
  ELSE IF event.event \in MediumPriorityEvents THEN "mediumPriority"
  ELSE "lowPriority"

FreeTextNameRendered ==
  /\ ua.pc = "rendered"
  /\ ua.userId # Absent
  /\ UserEvents(ua.events, ua.userId) = <<>>
  /\ ua.auditService
  /\ ua.orgId

\* The members the organization has under the name asked about.
MembersNamed(userId) ==
  {i \in 1..Len(ua.endpoint.members) : NameMatches(ua.endpoint.members[i].name, userId)}

\* The names of the organization's members, in roster order.
RosterNames ==
  LET idx == SelectIdx(Len(ua.endpoint.members),
               {i \in 1..Len(ua.endpoint.members) : ua.endpoint.members[i].name # Absent})
  IN [j \in 1..Len(idx) |-> ua.endpoint.members[idx[j]].name]

\* C6: for a free-text name that matches no grouping key and a populated
\* roster: when no member has that name the result has knownUser = false and
\* carries the roster's names, the message begins by saying that no user of
\* that name was found and lists the first names of the roster, at most 10;
\* when a member has that name and no event is that member's, the result has
\* knownUser = true and totalActions = 0.
C6_UnresolvedNameOutcome ==
  (/\ FreeTextNameRendered
   /\ ua.endpoint.status = 200 /\ ua.endpoint.isArray
   /\ Len(ua.endpoint.members) > 0) =>
    /\ MembersNamed(ua.userId) = {} =>
         /\ ua.result.knownUser = "false"
         /\ Len(ua.result.allOrgUsers) = Len(ua.endpoint.members)
         /\ \A i \in 1..Len(ua.result.allOrgUsers) :
              ua.result.allOrgUsers[i].name = ua.endpoint.members[i].name
         /\ ua.message.head = "no_user_of_that_name"
         /\ Len(ua.message.listed) <= 10
         /\ ua.message.listed = Slice(RosterNames, 10)
    /\ (/\ MembersNamed(ua.userId) # {}
        /\ \A i \in MembersNamed(ua.userId) :
             UserEvents(ua.events, ua.endpoint.members[i].id) = <<>>) =>
         /\ ua.result.knownUser = "true"
         /\ ua.result.totalActions = 0

\* C7: when the roster fetch fails with 401, 403 or 404 for a free-text name,
\* the result carries the apiErrorType that classifies the failure and the
\* message reports it as the detected issue.
C7_RosterFailureClassified ==
  (FreeTextNameRendered /\ ua.endpoint.status \in {401, 403, 404}) =>
    /\ ua.result.apiErrorType # NoErrorType
    /\ ua.result.apiErrorType = ClientErrorType(ua.endpoint.status)
    /\ ua.message.detectedIssue = ua.result.apiErrorType

(***************************************************************************)
(* Claims about the intent recognizer (SpecIntent)                         *)
(***************************************************************************)
Recognized == ir.pc = "recognized"
WhitespaceOnly(text) == \A i \in 1..Len(text) : text[i] \in WhiteSpace

\* C11: for every input that is empty, consists only of whitespace, or is
\* not a string, recognizeIntent returns intent help_request with
\* confidence 1.0.
C11_BlankOrInvalidIsHelp ==
  Recognized /\ (ir.message.type # "string" \/ WhitespaceOnly(ir.message.text))
    => ir.result.intent = "help_request" /\ ir.result.confidence = 1000

\* A whitespace-only message that is not empty has been recognized: it got
\* past the guard and through the patterns and the keywords.
C11_Witness ==
  /\ Recognized /\ ir.message.type = "string"
  /\ ir.message.text # <<>> /\ WhitespaceOnly(ir.message.text)
  /\ ir.result.intent = "help_request"

\* C12: for every intent X and every pattern listed under X in the intent
\* pattern table, every message that matches that pattern is classified by
\* recognizeIntent as X, with confidence >= 0.3.
C12_MatchedPatternDecidesIntent ==
  Recognized /\ ir.message.type = "string" =>
    \A k \in 1..Len(IntentPatterns(ir.revision)) :
      \A p \in 1..Len(IntentPatterns(ir.revision)[k].patterns) :
        RegexTest(IntentPatterns(ir.revision)[k].patterns[p], ir.message.text)
          => /\ ir.result.intent = IntentPatterns(ir.revision)[k].intent
             /\ ir.result.confidence >= 300

(***************************************************************************)
(* Claims about the entity extractor (SpecEntity)                          *)
(***************************************************************************)
\* C13: extractEntities("last 3 weeks") returns the entity map whose only
\* entry is time_period = "3 weeks".
C13_Last3WeeksIsOnlyATimePeriod ==
  ee.pc = "extracted" /\ ee.message = [type |-> "string", text |-> Chars("last 3 weeks")]
    => /\ DOMAIN ee.entities = {"time_period"}
       /\ ee.entities["time_period"] = [kind |-> "string", text |-> Chars("3 weeks")]

(***************************************************************************)
(* Claims about the user cache of the service (SpecService)                *)
(***************************************************************************)
\* What the claim expects of a directory answer with this name and email.
RankedDisplay(name, email, id) ==
  IF name # <<>> /\ email # <<>> THEN name \o Chars(" (") \o email \o Chars(")")
  ELSE IF name # <<>> THEN name
  ELSE IF email # <<>> THEN email
  ELSE Chars("user ") \o SubSeq(id, 1, 8)

\* C14: formatUserDisplay(id) returns 'name (email)' when the user directory
\* returns both a name and an email for id, the name when it returns only a
\* name, the email when it returns only an email, and 'user ' followed by
\* the first 8 characters of id when it returns neither (the four mocked
\* users of the test).
C14_DisplayRanksNameAndEmail ==
  \A n \in 1..Len(us.calls) :
    LET call == us.calls[n]
    IN call.op = "formatUserDisplay" /\ call.looked /\ call.answer # FailedLookupAnswer
         => call.result = RankedDisplay(call.answer.name, call.answer.email, call.id)

\* The calls of getUserInfo for an id, in order.
InfoCalls(id) ==
  SelectIdx(Len(us.calls),
            {n \in 1..Len(us.calls) : us.calls[n].op = "getUserInfo" /\ us.calls[n].id = id})

\* C15: for one service instance and any sequence of getUserInfo,
\* formatUserDisplay and getAllOrgUsers calls: the first getUserInfo(id)
\* creates the cache entry for id, from then on that entry is never removed
\* or changed, and every later getUserInfo(id) returns that same UserInfo
\* without making a remote user lookup.
C15_CacheEntryIsPermanent ==
  \A id \in TestUserIds :
    InfoCalls(id) # <<>> =>
      LET first == us.calls[InfoCalls(id)[1]].result
      IN /\ id \in DOMAIN us.userCache
         /\ us.userCache[id] = first
         /\ \A k \in 2..Len(InfoCalls(id)) :
              /\ us.calls[InfoCalls(id)[k]].result = first
              /\ ~us.calls[InfoCalls(id)[k]].looked

(***************************************************************************)
(* Claims about concurrently processed messages (SpecRace)                 *)
(***************************************************************************)
\* The messages whose getUserInfo stored an entry for id, and the messages
\* that updated the context of key.
WritersOf(id) ==
  {n \in 1..MaxMessages : rc.messages[n].userId = id /\ rc.messages[n].wrote # NoInfo}
UpdatersOf(key) ==
  {n \in 1..MaxMessages : rc.messages[n].key = key /\ rc.messages[n].pc = "done"}

TokenOfEndpoint == IF wh.path = "/webhook" THEN wh.webhookAuthToken ELSE wh.configApiToken

\* The request carries the configured bearer token.
CarriesValidToken ==
  /\ TokenOfEndpoint.present /\ TokenOfEndpoint.text # <<>>
  /\ wh.authorization.present
  /\ wh.authorization.text = Chars("Bearer ") \o TokenOfEndpoint.text

\* C17: every POST to the webhook endpoint and to the /config endpoint that
\* does not carry a valid bearer token is rejected (401 or 403) before the
\* message is processed or the configuration is changed, whatever tokens
\* are or are not configured for the deployment.
C17_NoTokenNoProcessing ==
  wh.pc = "answered" /\ ~CarriesValidToken
    => wh.status \in {401, 403} /\ ~wh.processed /\ ~wh.configUpdated

(***************************************************************************)
(* Claims about the configuration file (SpecConfig)                        *)
(***************************************************************************)
\* C18: after any sequence of init, update, setApiKey and save operations
\* of ConfigManager, the configuration file on disk never contains the API
\* key in plaintext: the key is encrypted before it is written.
C18_KeyNeverWrittenInPlaintext ==
  cm.pc = "constructed" /\ cm.writes > 0
    => cm.file.apiKey.form = "iv:encryptedData" \/ cm.file.apiKey.text = ""

(***************************************************************************)
(* Claims about the workflows over the audit search                        *)
(***************************************************************************)
NothingFoundMessages == {"no_security_events", "no_suspicious_activities"}

\* C19: when the remote audit search fails while a security_events_query or
\* a suspicious_activity_query is served, the response is never a
\* success=true response reporting that nothing was found.
C19_FailedSearchNeverReportsNothingFound ==
  (wf.pc = "answered" /\ failedCalls > 0)
    => ~(wf.response.success /\ wf.response.message \in NothingFoundMessages)

(***************************************************************************)
(* Claims about the three kinds of remote call                             *)
(***************************************************************************)
\* The call ended in a failure (reported or absorbed) and every attempt of
\* it failed with a status the client counts as transient.
EndedOnTransientFailures(call) ==
  /\ call.pc \in {"threw", "absorbed"}
  /\ \A i \in 1..Len(call.errors) : call.errors[i] \in RetryStatusCodes

\* The waits of a full backoff sequence: retryDelay * 2^k for k = 0 .. retries - 1.
FullBackoff(call) == [k \in 1..call.retries |-> BackoffDelay(call.retryDelay, k - 1)]

\* C20: each kind of remote call (audit search, getUserById, getAllOrgUsers)
\* is attempted again after a transient failure, up to the configured retry
\* bound with exponential backoff, before its failure is reported or absorbed.
C20_EveryCallKindRetries ==
  EndedOnTransientFailures(rk)
    => (Len(rk.errors) = rk.retries + 1 /\ rk.waits = FullBackoff(rk))

(***************************************************************************)
(* Claims about the actor the analyzers attribute an event to              *)
(***************************************************************************)
\* The events the volume rule counted under one record.
EventsCountedUnder(record) ==
  {i \in 1..Len(ad.events) :
     DetectorUser(ad.events[i]) = record.user /\ ad.events[i].event = record.eventType}

\* C21: the anomaly detector attributes each event to the user id the
\* normalized event carries: for an event whose actor is in the top-level
\* user_id only it names the same actor as the user activity analyzer, and
\* no high-volume record pools events performed by different users.
C21_DetectorNamesTheEventsUser ==
  ad.pc = "detected" =>
    /\ \A i \in 1..Len(ad.events) :
         DetectorUser(ad.events[i]) = ActivityUser(ad.events[i])
    /\ \A j \in 1..Len(ad.suspiciousActivities) :
         ad.suspiciousActivities[j].type = "high_volume_sensitive_actions" =>
           \A a, b \in EventsCountedUnder(ad.suspiciousActivities[j]) :
             ActivityUser(ad.events[a]) = ActivityUser(ad.events[b])

(***************************************************************************)
(* Claims about the roster the service hands to the analyzers              *)
(***************************************************************************)
\* C22: the roster returned by the service's getAllOrgUsers preserves, for
\* every member the API client returned, the member's id, name, username
\* and email.
C22_RosterPreservesMembers ==
  (ua.orgUsersCache.cached /\ ua.endpoint.status = 200 /\ ua.endpoint.isArray) =>
    LET members == ClientGetAllOrgUsers(ua.endpoint)
        roster == ua.orgUsersCache.users
    IN /\ Len(roster) = Len(members)
       /\ \A i \in 1..Len(roster) :
            /\ roster[i].id = members[i].id
            /\ roster[i].name = members[i].name
            /\ roster[i].username = members[i].username
            /\ roster[i].email = members[i].email

(***************************************************************************)
(* Claims about the summary of all users                                   *)
(***************************************************************************)
AllUsersSummarized == ua.pc \in {"analyzed", "rendered"} /\ ua.result.kind = "all_users"

\* The actors of the event list.
ActorsOf(events) == {ActivityUser(events[i]) : i \in 1..Len(events)}

RECURSIVE SumOfCounts(_)
SumOfCounts(summaries) ==
  IF summaries = <<>> THEN 0
  ELSE summaries[1].eventCount + SumOfCounts(Tail(summaries))

\* C23: analyzeUserActivity without a userId returns one summary per
\* distinct actor; each eventCount is the number of events of that actor
\* (the counts add up to the number of events) and each lastActive is the
\* latest creation timestamp among the actor's events, in whatever order the
\* events are listed.
C23_SummaryPerActor ==
  (AllUsersSummarized /\ ua.userId = Absent) =>
    LET sums == ua.result.userSummaries IN
    /\ {sums[k].userId : k \in 1..Len(sums)} = ActorsOf(ua.events)
    /\ Len(sums) = Cardinality(ActorsOf(ua.events))
    /\ SumOfCounts(sums) = Len(ua.events)
    /\ \A k \in 1..Len(sums) :
         LET mine == UserEvents(ua.events, sums[k].userId) IN
         /\ sums[k].eventCount = Len(mine)
         /\ \A i \in 1..Len(mine) : mine[i].created.stamp <= sums[k].lastActive.stamp

(***************************************************************************)
(* Claims about the security summary message                               *)
(***************************************************************************)
\* C24: for every categorized event set the summary lists at most 5
\* individual events under each of its three tiers, however many events the
\* tier holds; an empty event set yields only the canned message.
C24_AtMostFivePerTier ==
  sm.pc = "summarized" =>
    /\ Len(sm.message.high.lines) <= 5
    /\ Len(sm.message.medium.lines) <= 5
    /\ Len(sm.message.low.lines) <= 5
    /\ (sm.events = <<>>) =>
         /\ sm.message.kind = "no_security_events"
         /\ ~sm.message.high.shown /\ ~sm.message.medium.shown /\ ~sm.message.low.shown

(***************************************************************************)
(* Claims about what the service remembers of a failed lookup              *)
(***************************************************************************)
UserLookupOps == {"getUserInfo", "formatUserDisplay"}

\* Call m fetched the roster and the members endpoint failed.
RosterFetchFailed(m) ==
  /\ us.calls[m].op = "getAllOrgUsers" /\ us.calls[m].looked
  /\ us.calls[m].answer.status # 200

\* Call m looked the user up and the lookup failed.
UserLookupFailed(m) ==
  /\ us.calls[m].op \in UserLookupOps /\ us.calls[m].looked
  /\ us.calls[m].answer = FailedLookupAnswer

\* C25: a failed remote lookup is not remembered as a result: after a
\* getAllOrgUsers or a getUserInfo whose remote call failed, a later call
\* for the roster or for the same id contacts the remote again.
C25_FailedLookupIsNotCached ==
  \A m \in 1..Len(us.calls) : \A n \in (m + 1)..Len(us.calls) :
    /\ (RosterFetchFailed(m) /\ us.calls[n].op = "getAllOrgUsers") => us.calls[n].looked
    /\ (/\ UserLookupFailed(m) /\ us.calls[n].op \in UserLookupOps
        /\ us.calls[n].id = us.calls[m].id) => us.calls[n].looked

(***************************************************************************)
(* Claims about the days of a time period                                  *)
(***************************************************************************)
DaysPerUnit(unit) ==
  IF unit = "days" THEN 1 ELSE IF unit = "weeks" THEN 7
  ELSE IF unit = "months" THEN 30 ELSE 365

\* C26: _parseDaysFromTimePeriod maps every canonical time period
\* '<N> <unit>' the entity extractor produces to N times the unit's length
\* in days (days 1, weeks 7, months 30, years 365).
C26_DaysAreCountTimesUnit ==
  (tp.pc = "parsed" /\ tp.unit \in {"days", "weeks", "months", "years"}) =>
    /\ tp.entities["time_period"].text = DigitsOf(tp.count) \o <<" ">> \o Chars(tp.unit)
    /\ tp.days = tp.count * DaysPerUnit(tp.unit)

(***************************************************************************)
(* Claims about the keyword pass of the intent recognizer                  *)
(***************************************************************************)
\* The message as the passes read it, and what the keyword pass scores.
NormalizedOf(message) == ToLowerCase(Trim(message.text))
ScoresOf(message, revision) ==
  ScoreIntentsByKeywords(NormalizedOf(message), IntentKeywords(revision))
ScoreSet(scores) == {scores[k].score : k \in 1..Len(scores)}
HighestScore(scores) == CHOOSE s \in ScoreSet(scores) : \A t \in ScoreSet(scores) : t <= s

\* A string message that no pattern of the primary pass matches.
KeywordPassDecides ==
  /\ Recognized /\ ~IsEmptyOrInvalid(ir.message)
  /\ FirstMatching(PatternsInOrder(IntentPatterns(ir.revision)), NormalizedOf(ir.message)) = 0

\* C27: when no pattern matches, recognizeIntent returns the intent with the
\* highest keyword score, with that score (at most 0.95) as confidence, if
\* the score is at least 0.3; if no intent scores at least 0.3 it returns
\* help_request with confidence 1.0.
C27_KeywordPassPicksHighestScore ==
  KeywordPassDecides =>
    LET scores == ScoresOf(ir.message, ir.revision) IN
    IF scores # <<>> /\ HighestScore(scores) >= 300
    THEN /\ \E k \in 1..Len(scores) :
              scores[k].intent = ir.result.intent /\ scores[k].score = HighestScore(scores)
         /\ ir.result.confidence = HighestScore(scores)
         /\ ir.result.confidence <= 950
    ELSE ir.result.intent = "help_request" /\ ir.result.confidence = 1000

\* The keyword pass has decided between several scored intents, and the one
\* it returned is not the first that was scored.
C27_Witness ==
  /\ KeywordPassDecides
  /\ Len(ScoresOf(ir.message, ir.revision)) >= 2
  /\ HighestScore(ScoresOf(ir.message, ir.revision)) >= 300
  /\ ScoresOf(ir.message, ir.revision)[1].score < HighestScore(ScoresOf(ir.message, ir.revision))
  /\ ir.result.intent # ScoresOf(ir.message, ir.revision)[1].intent
  /\ ir.result.confidence = HighestScore(ScoresOf(ir.message, ir.revision))

(***************************************************************************)
(* Claims about the confidence the pipeline routes by                      *)
(***************************************************************************)
Routed == nr.pc = "routed"
DefaultThresholdInForce == nr.confidenceThreshold = 300

\* The confidence of a pattern for a message its source does not contain:
\* the least the pattern can give.
LowestConfidenceOf(pattern) == CalculateConfidence(<<"#">>, pattern)

\* C28: recognizeIntent never returns a confidence below 0.3, so with the
\* default confidence threshold processMessage never takes the
\* low-confidence path: no response has fallback or clarification set.
C28_NeverLowConfidenceByDefault ==
  /\ Recognized =>
       /\ ir.result.confidence >= 300
       /\ \A n \in 1..Len(PatternsInOrder(IntentPatterns(ir.revision))) :
            LowestConfidenceOf(PatternsInOrder(IntentPatterns(ir.revision))[n].pattern) >= 300
  /\ (Routed /\ DefaultThresholdInForce) =>
       /\ nr.response.route = "handleRequest"
       /\ ~nr.response.fallback /\ ~nr.response.clarification

\* A message whose confidence is exactly the threshold has been routed to
\* handleRequest under the default threshold.
C28_Witness ==
  /\ Routed /\ DefaultThresholdInForce
  /\ ir.result.confidence = 300
  /\ ir.result.intent # "help_request"
  /\ nr.response.route = "handleRequest"

(***************************************************************************)
(* Claims about the three anomaly rules together                           *)
(***************************************************************************)
RecordsOfType(type) ==
  {j \in 1..Len(ad.suspiciousActivities) : ad.suspiciousActivities[j].type = type}

\* The events each of the two per-event rules flags on its own, the actor
\* being the one the detector reads from the event's content.
AfterHoursEvents ==
  {i \in 1..Len(ad.events) :
     /\ ad.events[i].event \in SecurityCriticalEvents
     /\ (\/ ad.events[i].created.hour < ad.businessHoursStart
         \/ ad.events[i].created.hour > ad.businessHoursEnd)}
ServiceAccountEvents ==
  {i \in 1..Len(ad.events) :
     /\ ad.events[i].event \in SecurityCriticalEvents
     /\ ad.events[i].event \notin ProjectTestEvents
     /\ \E marker \in {"service", "bot", "auto", "jenkins"} :
          Includes(ToLowerCase(DetectorUser(ad.events[i])), Chars(marker))}

\* The (actor, type) pairs the volume rule flags on its own.
HighVolumePairs ==
  {<<DetectorUser(ad.events[i]), ad.events[i].event>> : i \in
     {i \in 1..Len(ad.events) :
        /\ ad.events[i].event \in SecurityCriticalEvents
        /\ Cardinality({k \in 1..Len(ad.events) :
                          /\ DetectorUser(ad.events[k]) = DetectorUser(ad.events[i])
                          /\ ad.events[k].event = ad.events[i].event}) > 5}}

RecordsAbout(type, i) ==
  {j \in RecordsOfType(type) :
     /\ ad.suspiciousActivities[j].user = DetectorUser(ad.events[i])
     /\ ad.suspiciousActivities[j].eventType = ad.events[i].event
     /\ ad.suspiciousActivities[j].time = ad.events[i].created.stamp}

C30_EveryAcceptedNounIsRouted ==
  (eu.pc = "answered" /\ eu.noun \in QueryNouns) =>
    /\ eu.reply.kind # "unknown_event_type"
    /\ eu.reply.fetched
    /\ \E n \in 1..Len(EventMap) :
         /\ Includes(eu.reply.eventType, Chars(EventMap[n].key))
         /\ eu.reply.prefix = EventMap[n].prefix

====
